---- MODULE Spec2Model ----
(***************************************************************************)
(* A model of styx, an incremental build orchestrator:                     *)
(*   - the dependency graph      (package dependency, Graph)               *)
(*   - the build cache           (package builder, Cache)                  *)
(*   - the task executor         (package builder, Executor)               *)
(*   - the build orchestrator    (package builder, Builder)                *)
(* Each subsystem has its own specification over its own variables; the    *)
(* variables of the other subsystems keep their initial value.             *)
(***************************************************************************)
EXTENDS Integers, Sequences, FiniteSets, TLC

(***************************************************************************)
(* Bounds of the model.                                                    *)
(***************************************************************************)
\* number of distinct node identifiers (file paths) a graph may hold
MaxNodes == 3
\* number of dependency edges a graph may hold
MaxEdges == 3
\* number of entry points that may be marked
MaxEntry == 2

\* modification times are whole seconds 1..MaxTime
MaxTime == 2
\* file contents are 1..MaxContent
MaxContent == 2
\* number of #include lines in a file
MaxIncludes == 2
\* number of source files in a batch whose commands are chosen
MaxBatch == 2
\* length of the dependency list passed to the cache
MaxDeps == 1
\* number of flags on a command line
MaxArgs == 2

\* number of tasks a caller creates
MaxTasks == 3
\* number of distinct task identifiers
MaxIDs == 2
\* pool size of an executor
MaxWorkers == 2
\* length of a task's Dependencies
MaxTaskDeps == 1

\* number of source files of a project
MaxSources == 1
\* the clock of the build machine runs over the seconds 1..MaxClock
MaxClock == 2

\* length of the pre-build and of the post-build command list
MaxCmds == 2
\* number of source files the source patterns of a configuration may match
MaxMatched == 2

VARIABLES
    pConfig,      \* the configuration and the project one Build call works on
    pPhase,       \* the phase that Build call is in
    pPc,          \* where it is in that phase
    pIdx,         \* the index of the loop it is in
    pErrors,      \* compilationErrors: one message per failed compilation
    pErr,         \* what Build returned
    pSaved,       \* what became of Cache.Save
    bNow,         \* the current time, in whole seconds
    bCommand,     \* the compiler and compilation flags of the configuration
    bIncludes,    \* per source file, whether it includes the header
    bBuild,       \* the last Build: the compile tasks it created and how it ended
    bClean,       \* the last Build compiled everything and saved the cache, and
                  \* no source, header or flag has changed since
    eTask,        \* the Task values the caller created: ID and Dependencies of each
    ePlan,        \* the tasks the caller is going to submit, in order
    ePos,         \* how many of them it has submitted
    eCaller,      \* where the caller of the executor is
    eWorkerCount, \* Executor.WorkerCount
    eWorker,      \* the worker goroutines: where each is and the task it holds
    eQueue,       \* the buffer of Executor.Tasks
    eClosed,      \* whether Executor.Tasks is closed
    eResults,     \* the buffer of Executor.Results
    eCompleted,   \* Executor.CompletedTasks: the identifiers mapped to true
    eSignalled,   \* the tasks whose CompleteCh is closed
    eOut,         \* what WaitForAll returned
    cFS,        \* the file system: per path, whether it exists, its mtime, its content
    cEntries,   \* Cache.BuildCache.Entries: per path an entry or NoEntry
    cRes,       \* the last Cache call: its arguments and what it returned
    cSnap,      \* the dependency file as it was when the artifact's entry was recorded
    gNodes,     \* Graph.Nodes: the set of identifiers present
    gType,      \* Node.Type of each node ("none" for an identifier not present)
    gDeps,      \* Node.Dependencies of each node: an ordered list of identifiers
    gEntry,     \* Graph.EntryPoints: an ordered list of identifiers
    gRes,       \* the last Graph call and what it returned
    dDir,       \* the directory of the cache file: "present", "absent" or "blocked"
    dFile,      \* the cache file on disk
    dObjects,   \* the object files that exist on disk
    dCache,     \* Cache.BuildCache: NilCache or a version and the keys of Entries
    dRes,       \* the last call on the cache document and the error it returned
    fCompiler,    \* Builder.Compiler
    fSources,     \* the matched source files: extension and staleness of each
    fOutputType,  \* Config.Build.OutputType
    fHasCppFiles, \* Builder.HasCppFiles
    fTasks,       \* the tasks submitted so far: kind, source extension, Command
    fPc,          \* how far Build has scheduled: "new", "compiled", "scheduled"
    oSources,     \* the source files FindSourceFiles returned, as paths
    oObjects,     \* objectFiles of scheduleCompilationTasks
    sFiles,       \* the files the scanner may open: per path, absent or its include lines
    sStack,       \* the calls of scanRecursive in progress: file and line reached
    sVisited,     \* DependencyScanner.visitedFiles
    sDeps,        \* the dependencies map of Scan
    sOpened,      \* the paths os.Open was called with, in order
    sResult,      \* the list Scan returned
    wResult,      \* what a call of WaitForTask returned
    sPc           \* Scan is not called ("idle"), running ("scan") or back ("done")

gvars == <<gNodes, gType, gDeps, gEntry, gRes>>

cvars == <<cFS, cEntries, cRes, cSnap>>

evars == <<eTask, ePlan, ePos, eCaller, eWorkerCount, eWorker, eQueue, eClosed,
           eResults, eCompleted, eSignalled, eOut>>

bvars == <<bNow, bCommand, bIncludes, bBuild, bClean>>

pvars == <<pConfig, pPhase, pPc, pIdx, pErrors, pErr, pSaved>>

dvars == <<dDir, dFile, dObjects, dCache, dRes>>

fvars == <<fCompiler, fSources, fOutputType, fHasCppFiles, fTasks, fPc>>

ovars == <<oSources, oObjects>>

svars == <<sFiles, sStack, sVisited, sDeps, sOpened, sResult, sPc>>

wvars == <<wResult>>

vars == <<gvars, cvars, evars, bvars, pvars, dvars, fvars, ovars, svars, wvars>>

\* a step of one subsystem leaves the others alone
GraphStep == UNCHANGED <<cvars, evars, bvars, pvars, dvars, fvars, ovars, svars, wvars>>

CacheStep == UNCHANGED <<gvars, evars, bvars, pvars, dvars, fvars, ovars, svars, wvars>>

ExecStep == UNCHANGED <<gvars, cvars, bvars, pvars, dvars, fvars, ovars, svars, wvars>>

\* a build reads and writes the files and the cache, through its own executor
BuildStep == UNCHANGED <<gvars, evars, cRes, cSnap, pvars, dvars, fvars, ovars, svars, wvars>>

\* a step of one Build call, seen phase by phase, uses the executor
PhaseStep == UNCHANGED <<gvars, cvars, bvars, dvars, fvars, ovars, svars, wvars>>

\* a step on the cache document
DocStep == UNCHANGED <<gvars, cvars, evars, bvars, pvars, fvars, ovars, svars, wvars>>

\* a step of the computation of the object paths
PathStep == UNCHANGED <<gvars, cvars, evars, bvars, pvars, dvars, fvars, svars, wvars>>

\* a step of the include scanner
ScanStep == UNCHANGED <<gvars, cvars, evars, bvars, pvars, dvars, fvars, ovars, wvars>>

\* a step of the choice of the compiler command
FrontStep == UNCHANGED <<gvars, cvars, evars, bvars, pvars, dvars, ovars, svars, wvars>>

(***************************************************************************)
(* General helpers.                                                        *)
(***************************************************************************)
\* every order in which a Go map with key set S may be ranged over
RECURSIVE Perms(_)
Perms(S) == IF S = {} THEN {<<>>} ELSE UNION {{<<x>> \o p : p \in Perms(S \ {x})} : x \in S}

\* the set of elements of a sequence
Range(s) == {s[i] : i \in 1..Len(s)}

\* the first position of x in s (0 when absent)
IndexOf(s, x) == IF x \in Range(s) THEN CHOOSE i \in 1..Len(s) : s[i] = x /\ \A j \in 1..(i-1) : s[j] # x ELSE 0

(***************************************************************************)
(* The dependency graph (src/unnamed/part_001).                            *)
(***************************************************************************)
NodeIds == 1..MaxNodes

\* the node types the builder gives its nodes
NodeTypes == {"Source", "Object"}

\* what a call returned: its error ("" for nil) and, for a sort, the list
GraphRes(op, err, out) == [op |-> op, err |-> err, out |-> out]

\* NewGraph: no node, no entry point
GraphInit ==
    /\ gNodes = {}
    /\ gType = [n \in NodeIds |-> "none"]
    /\ gDeps = [n \in NodeIds |-> <<>>]
    /\ gEntry = <<>>
    /\ gRes = GraphRes("NewGraph", "", <<>>)

RECURSIVE dfsHasCycle(_, _, _)
RECURSIVE dfsHasCycleDeps(_, _, _, _)

\* the loop over node.Dependencies of dfsHasCycle without the active-path test
dfsHasCycleDeps_NoPathCheck(deps, list, i, st) ==
    IF i > Len(list) THEN st
    ELSE IF list[i] \notin st.visited
         THEN LET r == dfsHasCycle(deps, list[i], st)
              IN  IF r.found THEN r ELSE dfsHasCycleDeps(deps, list, i + 1, r)
         ELSE dfsHasCycleDeps(deps, list, i + 1, st)

\* the loop over node.Dependencies of dfsHasCycle, from position i on
dfsHasCycleDeps(deps, list, i, st) ==
    IF i > Len(list) THEN st
    ELSE IF list[i] \notin st.visited
         THEN LET r == dfsHasCycle(deps, list[i], st)
              IN  IF r.found THEN r ELSE dfsHasCycleDeps(deps, list, i + 1, r)
         ELSE IF list[i] \in st.path
              THEN [st EXCEPT !.found = TRUE]
              ELSE dfsHasCycleDeps(deps, list, i + 1, st)

\* dfsHasCycle: visited and path are the two maps, found the value returned
dfsHasCycle(deps, nodeID, st) ==
    LET st1 == [st EXCEPT !.visited = @ \cup {nodeID}, !.path = @ \cup {nodeID}]
        st2 == dfsHasCycleDeps(deps, deps[nodeID], 1, st1)
    IN  IF st2.found THEN st2 ELSE [st2 EXCEPT !.path = @ \ {nodeID}]

RECURSIVE hasCycleFrom(_, _, _, _)
\* the loop of hasCycle over the map, in the order the map is ranged over
hasCycleFrom(deps, order, i, st) ==
    IF i > Len(order) THEN FALSE
    ELSE IF order[i] \notin st.visited
         THEN LET r == dfsHasCycle(deps, order[i], st)
              IN  IF r.found THEN TRUE ELSE hasCycleFrom(deps, order, i + 1, r)
         ELSE hasCycleFrom(deps, order, i + 1, st)

hasCycle(deps, order) ==
    hasCycleFrom(deps, order, 1, [visited |-> {}, path |-> {}, found |-> FALSE])

RECURSIVE SumLen(_, _)
SumLen(deps, S) == IF S = {} THEN 0 ELSE LET n == CHOOSE x \in S : TRUE IN Len(deps[n]) + SumLen(deps, S \ {n})

\* the number of dependency edges held
EdgeCount(deps) == SumLen(deps, DOMAIN deps)

\* AddNode that reports the duplicate and stores the new node over the old one
AddNodeResult_Overwrite(nodes, types, deps, id, type) ==
    [nodes |-> nodes \cup {id},
     types |-> [types EXCEPT ![id] = type],
     deps  |-> [deps EXCEPT ![id] = <<>>],
     err   |-> IF id \in nodes THEN "exists" ELSE ""]

\* AddNode: the graph after the call and the error returned; every call site
\* builds the node with no dependency
AddNodeResult(nodes, types, deps, id, type) ==
    IF id \in nodes
    THEN [nodes |-> nodes, types |-> types, deps |-> deps, err |-> "exists"]
    ELSE [nodes |-> nodes \cup {id},
          types |-> [types EXCEPT ![id] = type],
          deps  |-> [deps EXCEPT ![id] = <<>>],
          err   |-> ""]

AddNode(id, type) ==
    LET r == AddNodeResult(gNodes, gType, gDeps, id, type)
    IN  /\ gNodes' = r.nodes
        /\ gType' = r.types
        /\ gDeps' = r.deps
        /\ gRes' = GraphRes("AddNode", r.err, <<>>)
        /\ UNCHANGED gEntry
        /\ GraphStep

\* AddDependency's scan of the source's list for the target
hasDependency_Never(deps, from, to) == FALSE

hasDependency(deps, from, to) == to \in Range(deps[from])

\* AddDependency that reports the cycle and keeps the edge
AddDependencyResult_NoRollback(nodes, deps, from, to, order) ==
    IF from \notin nodes THEN [deps |-> deps, err |-> "source not found", already |-> FALSE]
    ELSE IF to \notin nodes THEN [deps |-> deps, err |-> "target not found", already |-> FALSE]
    ELSE IF hasDependency(deps, from, to) THEN [deps |-> deps, err |-> "", already |-> TRUE]
    ELSE LET added == [deps EXCEPT ![from] = Append(@, to)]
         IN  IF hasCycle(added, order)
             THEN [deps |-> added, err |-> "cycle", already |-> FALSE]
             ELSE [deps |-> added, err |-> "", already |-> FALSE]

\* AddDependency: the dependency lists after the call, the error returned and
\* whether the call returned from its scan for the edge ("this dep already exists")
AddDependencyResult(nodes, deps, from, to, order) ==
    IF from \notin nodes THEN [deps |-> deps, err |-> "source not found", already |-> FALSE]
    ELSE IF to \notin nodes THEN [deps |-> deps, err |-> "target not found", already |-> FALSE]
    ELSE IF hasDependency(deps, from, to) THEN [deps |-> deps, err |-> "", already |-> TRUE]
    ELSE LET added == [deps EXCEPT ![from] = Append(@, to)]
         IN  IF hasCycle(added, order)
             THEN [deps |-> [added EXCEPT ![from] = SubSeq(@, 1, Len(@) - 1)], err |-> "cycle", already |-> FALSE]
             ELSE [deps |-> added, err |-> "", already |-> FALSE]

\* the map of nodes is ranged over in any order by hasCycle
AddDependency(from, to) ==
    \E r \in {AddDependencyResult(gNodes, gDeps, from, to, order) : order \in Perms(gNodes)} :
        /\ EdgeCount(r.deps) <= MaxEdges
        /\ gDeps' = r.deps
        /\ gRes' = [op |-> "AddDependency", err |-> r.err, out |-> <<>>, already |-> r.already]
        /\ UNCHANGED <<gNodes, gType, gEntry>>
        /\ GraphStep

MarkEntryPoint(id) ==
    /\ IF id \notin gNodes
       THEN /\ gRes' = GraphRes("MarkEntryPoint", "not found", <<>>)
            /\ UNCHANGED gEntry
       ELSE IF id \in Range(gEntry)
            THEN /\ gRes' = GraphRes("MarkEntryPoint", "", <<>>)
                 /\ UNCHANGED gEntry
            ELSE /\ Len(gEntry) < MaxEntry
                 /\ gEntry' = Append(gEntry, id)
                 /\ gRes' = GraphRes("MarkEntryPoint", "", <<>>)
    /\ UNCHANGED <<gNodes, gType, gDeps>>
    /\ GraphStep

RECURSIVE dfs(_, _, _)
RECURSIVE dfsDeps(_, _, _, _)

\* the loop over node.Dependencies of dfs that visits a dependency again
dfsDeps_Revisit(deps, list, i, st) ==
    IF i > Len(list) THEN st
    ELSE dfsDeps(deps, list, i + 1, dfs(deps, list[i], st))

\* the loop over node.Dependencies of dfs, from position i on
dfsDeps(deps, list, i, st) ==
    IF i > Len(list) THEN st
    ELSE IF list[i] \notin st.visited
         THEN dfsDeps(deps, list, i + 1, dfs(deps, list[i], st))
         ELSE dfsDeps(deps, list, i + 1, st)

\* dfs: the node is appended to the result after its dependencies
dfs(deps, nodeID, st) ==
    LET st1 == [st EXCEPT !.visited = @ \cup {nodeID}]
        st2 == dfsDeps(deps, deps[nodeID], 1, st1)
    IN  [st2 EXCEPT !.result = Append(@, nodeID)]

RECURSIVE dfsRoots(_, _, _, _)
\* one of the two loops of TopologicalSort over starting nodes
dfsRoots(deps, roots, i, st) ==
    IF i > Len(roots) THEN st
    ELSE IF roots[i] \notin st.visited
         THEN dfsRoots(deps, roots, i + 1, dfs(deps, roots[i], st))
         ELSE dfsRoots(deps, roots, i + 1, st)

RECURSIVE reverseLoop(_, _, _)
\* the in-place reversal loop of TopologicalSort (i and j are 1-based here)
reverseLoop(s, i, j) ==
    IF i < j
    THEN reverseLoop([s EXCEPT ![i] = s[j], ![j] = s[i]], i + 1, j - 1)
    ELSE s

\* TopologicalSort: the error and the list returned; cyclic is what hasCycle
\* answered, order the order in which the map of nodes is ranged over
TopologicalSortResult(deps, entry, cyclic, order) ==
    IF cyclic
    THEN [err |-> "cycles", out |-> <<>>]
    ELSE LET st0 == [visited |-> {}, result |-> <<>>]
             st1 == dfsRoots(deps, entry, 1, st0)
             st2 == dfsRoots(deps, order, 1, st1)
         IN  [err |-> "", out |-> reverseLoop(st2.result, 1, Len(st2.result))]

\* TopologicalSort and GetBuildOrder, which only calls it
TopologicalSort ==
    \E cyclic \in {hasCycle(gDeps, order) : order \in Perms(gNodes)} :
    \E r \in {TopologicalSortResult(gDeps, gEntry, cyclic, order) : order \in Perms(gNodes)} :
        /\ gRes' = GraphRes("TopologicalSort", r.err, r.out)
        /\ UNCHANGED <<gNodes, gType, gDeps, gEntry>>
        /\ GraphStep

\* GetDependents: the nodes with an edge to nodeID, in the order in which the
\* map of nodes is ranged over
GetDependentsResult(deps, nodeID, order) ==
    SelectSeq(order, LAMBDA n : nodeID \in Range(deps[n]))

GetDependents(nodeID) ==
    \E order \in Perms(gNodes) :
        /\ gRes' = [op |-> "GetDependents", err |-> "", id |-> nodeID,
                    out |-> GetDependentsResult(gDeps, nodeID, order)]
        /\ UNCHANGED <<gNodes, gType, gDeps, gEntry>>
        /\ GraphStep

RECURSIVE getDependentsRecursive(_, _, _, _)
RECURSIVE getDependentsLoop(_, _, _, _, _)

\* the loop of getDependentsRecursive over the direct dependents, from
\* position i on
getDependentsLoop(deps, list, i, orders, st) ==
    IF i > Len(list) THEN st
    ELSE LET st1 == [st EXCEPT !.result = Append(@, list[i])]
         IN  getDependentsLoop(deps, list, i + 1, orders,
                               getDependentsRecursive(deps, list[i], orders, st1))

\* getDependentsRecursive; orders[n] is the order in which the map of nodes
\* is ranged over by the one GetDependents call made for n
getDependentsRecursive(deps, nodeID, orders, st) ==
    IF nodeID \in st.visited THEN st
    ELSE LET st1 == [st EXCEPT !.visited = @ \cup {nodeID}]
             directDependents == GetDependentsResult(deps, nodeID, orders[nodeID])
         IN  getDependentsLoop(deps, directDependents, 1, orders, st1)

GetDependentsRecursive(nodeID) ==
    \E orders \in [NodeIds -> Perms(gNodes)] :
        /\ gRes' = [op |-> "GetDependentsRecursive", err |-> "", id |-> nodeID,
                    out |-> getDependentsRecursive(gDeps, nodeID, orders,
                                                   [visited |-> {}, result |-> <<>>]).result]
        /\ UNCHANGED <<gNodes, gType, gDeps, gEntry>>
        /\ GraphStep

\* the calls that build a graph
GraphNext ==
    \/ \E id \in NodeIds, type \in NodeTypes : AddNode(id, type)
    \/ \E from, to \in NodeIds : AddDependency(from, to)

\* the calls that build a graph and the reverse-edge queries
GraphQueryNext ==
    \/ \E id \in NodeIds, type \in NodeTypes : AddNode(id, type)
    \/ \E from, to \in NodeIds : AddDependency(from, to)
    \/ \E nodeID \in NodeIds : GetDependents(nodeID)
    \/ \E nodeID \in NodeIds : GetDependentsRecursive(nodeID)

\* the calls that build a graph and those that order it
GraphSortNext ==
    \/ \E id \in NodeIds, type \in NodeTypes : AddNode(id, type)
    \/ \E from, to \in NodeIds : AddDependency(from, to)
    \/ \E id \in NodeIds : MarkEntryPoint(id)
    \/ TopologicalSort


(***************************************************************************)
(* The build cache (src/unnamed/part_003) and the files it looks at.       *)
(* A file is absent or has a modification time (ModTime().Unix(), whole    *)
(* seconds) and a content; the environment may make os.Stat of it fail     *)
(* with an error that is not "does not exist" (fault "stat": no permission *)
(* on its directory) or leave it statable and make os.Open of it fail      *)
(* (fault "open": no permission on the file).  An entry keeps the three fields the cache      *)
(* reads back: Hash, Timestamp and CommandHash (Path is its key; the       *)
(* Dependencies, ObjectFile and CompilationTime it also stores are read by *)
(* no operation of the cache).                                             *)
(***************************************************************************)
Artifact == "out"

Dependency == "dep"

\* the paths the cache is asked about: an artifact and a file it depends on
CachePaths == {Artifact, Dependency}

Times == 1..MaxTime

Contents == 1..MaxContent

NoFile == [exists |-> FALSE, mtime |-> 0, content |-> 0, fault |-> ""]

File(t, c) == [exists |-> TRUE, mtime |-> t, content |-> c, fault |-> ""]

Faults == {"stat", "open"}

\* os.Stat(path) returns an error
StatFails(fs, path) == ~fs[path].exists \/ fs[path].fault = "stat"

\* os.Open(path), or reading the file, returns an error
OpenFails(fs, path) == ~fs[path].exists \/ fs[path].fault # ""

NoEntry == [present |-> FALSE, Hash |-> 0, Timestamp |-> 0, CommandHash |-> ""]

CacheEntry(hash, timestamp, commandHash) ==
    [present |-> TRUE, Hash |-> hash, Timestamp |-> timestamp, CommandHash |-> commandHash]

\* sha256 followed by hex encoding: one-to-one on the bytes written to it
SHA256Hex(bytes) == "sha256:" \o bytes

RECURSIVE WriteAll(_, _)
\* hasher.Write of each argument in turn: the bytes are appended
WriteAll(written, args) ==
    IF args = <<>> THEN written ELSE WriteAll(written \o Head(args), Tail(args))

\* CalculateCommandHash: the hash of the command's bytes followed by each argument's
CalculateCommandHash(command, args) == SHA256Hex(WriteAll(command, args))

\* CalculateFileHash of an existing file: the hash of its content
CalculateFileHash(fs, path) == fs[path].content

\* the comparison of a dependency's time with the entry's, that never finds
\* the dependency newer
Newer_Never(mtime, timestamp) == FALSE

\* depInfo.ModTime().Unix() > entry.Timestamp
Newer(mtime, timestamp) == mtime > timestamp

RECURSIVE NeedsRebuildResult(_, _, _, _, _)
RECURSIVE NeedsRebuildDeps(_, _, _, _, _)

\* the loop of NeedsRebuild over the dependencies, from position i on
NeedsRebuildDeps(entries, fs, entry, dependencies, i) ==
    IF i > Len(dependencies) THEN [rebuild |-> FALSE, err |-> FALSE]
    ELSE IF StatFails(fs, dependencies[i]) THEN [rebuild |-> TRUE, err |-> FALSE]
    ELSE LET r == NeedsRebuildResult(entries, fs, dependencies[i], <<>>, "")
         IN  IF r.err \/ r.rebuild THEN [rebuild |-> TRUE, err |-> r.err]
             ELSE IF Newer(fs[dependencies[i]].mtime, entry.Timestamp)
                  THEN [rebuild |-> TRUE, err |-> FALSE]
                  ELSE NeedsRebuildDeps(entries, fs, entry, dependencies, i + 1)

\* NeedsRebuild: the boolean and whether an error came with it
NeedsRebuildResult(entries, fs, path, dependencies, commandHash) ==
    IF ~entries[path].present THEN [rebuild |-> TRUE, err |-> FALSE]
    ELSE IF ~fs[path].exists THEN [rebuild |-> TRUE, err |-> FALSE]
    ELSE IF StatFails(fs, path) THEN [rebuild |-> TRUE, err |-> TRUE]
    ELSE IF fs[path].mtime # entries[path].Timestamp THEN [rebuild |-> TRUE, err |-> FALSE]
    ELSE IF OpenFails(fs, path) THEN [rebuild |-> TRUE, err |-> TRUE]
    ELSE IF CalculateFileHash(fs, path) # entries[path].Hash THEN [rebuild |-> TRUE, err |-> FALSE]
    ELSE IF commandHash # entries[path].CommandHash THEN [rebuild |-> TRUE, err |-> FALSE]
    ELSE NeedsRebuildDeps(entries, fs, entries[path], dependencies, 1)

\* UpdateEntry that stores an entry whether or not the file could be read
UpdateEntryResult_Always(entries, fs, path, commandHash) ==
    [entries |-> [entries EXCEPT ![path] =
                     CacheEntry(CalculateFileHash(fs, path), fs[path].mtime, commandHash)],
     err |-> StatFails(fs, path) \/ OpenFails(fs, path)]

\* UpdateEntry: the entries after the call and whether it failed
UpdateEntryResult(entries, fs, path, commandHash) ==
    IF StatFails(fs, path) \/ OpenFails(fs, path) THEN [entries |-> entries, err |-> TRUE]
    ELSE [entries |-> [entries EXCEPT ![path] =
                          CacheEntry(CalculateFileHash(fs, path), fs[path].mtime, commandHash)],
          err |-> FALSE]

\* a command line, or no command at all: the empty command hash that
\* NeedsRebuild itself passes for a dependency
NoCommand == [command |-> "", args |-> <<>>, none |-> TRUE]

CommandLine(command, args) == [command |-> command, args |-> args, none |-> FALSE]

CommandHashOf(cmd) == IF cmd.none THEN "" ELSE CalculateCommandHash(cmd.command, cmd.args)

Compilers == {"gcc", "clang"}

Flags == {"-O", "2", "-O2"}

RECURSIVE SeqsUpTo(_, _)
\* the sequences over S of length at most n
SeqsUpTo(S, n) ==
    IF n = 0 THEN {<<>>}
    ELSE LET shorter == SeqsUpTo(S, n - 1)
         IN  shorter \cup {Append(q, x) : q \in shorter, x \in S}

\* the command lines of the cache specification: the first compiler without
\* flags, or none
CacheCommands == {NoCommand, CommandLine("gcc", <<>>)}

\* the command lines of the command-hash specification: a compiler and its flags
FlagCommands == {CommandLine(c, a) : c \in Compilers, a \in SeqsUpTo(Flags, MaxArgs)}

DepLists == SeqsUpTo({Dependency}, MaxDeps)

CacheRes(op, path, deps, cmd, rebuild, err) ==
    [op |-> op, path |-> path, deps |-> deps, cmd |-> cmd, rebuild |-> rebuild, err |-> err]

\* NewCache and Load with no cache file on disk, in a directory with no file
CacheInit ==
    /\ cFS = [p \in CachePaths |-> NoFile]
    /\ cEntries = [p \in CachePaths |-> NoEntry]
    /\ cRes = CacheRes("Load", "", <<>>, NoCommand, FALSE, FALSE)
    /\ cSnap = NoFile

\* a file that exists, with a fault or none
FileStates ==
    {NoFile} \cup {[File(t, c) EXCEPT !.fault = f] : t \in Times, c \in Contents, f \in Faults \cup {""}}

\* what UpdateEntry may have recorded for a path, if anything
EntryStates ==
    {NoEntry} \cup {CacheEntry(c, t, CommandHashOf(cmd)) : c \in Contents, t \in Times, cmd \in CacheCommands}

\* a cache after any number of UpdateEntry calls, and files that were
\* written, removed or had their permissions changed since
CacheFaultInit ==
    /\ cFS \in [CachePaths -> FileStates]
    /\ cEntries \in [CachePaths -> EntryStates]
    /\ cRes = CacheRes("Load", "", <<>>, NoCommand, FALSE, FALSE)
    /\ cSnap = NoFile

\* the same with the artifact already produced
CommandHashInit ==
    /\ cFS = [p \in CachePaths |-> IF p = Artifact THEN File(1, 1) ELSE NoFile]
    /\ cEntries = [p \in CachePaths |-> NoEntry]
    /\ cRes = CacheRes("Load", "", <<>>, NoCommand, FALSE, FALSE)
    /\ cSnap = NoFile

\* the environment writes a file: new content, new modification time, or both
WriteFile(path, t, c) ==
    /\ cFS[path] # File(t, c)
    /\ cFS' = [cFS EXCEPT ![path] = File(t, c)]
    /\ cRes' = CacheRes("WriteFile", "", <<>>, NoCommand, FALSE, FALSE)
    /\ UNCHANGED <<cEntries, cSnap>>
    /\ CacheStep

\* the environment removes a file
RemoveFile(path) ==
    /\ cFS[path].exists
    /\ cFS' = [cFS EXCEPT ![path] = NoFile]
    /\ cRes' = CacheRes("RemoveFile", "", <<>>, NoCommand, FALSE, FALSE)
    /\ UNCHANGED <<cEntries, cSnap>>
    /\ CacheStep

UpdateEntry(path, deps, cmd) ==
    LET r == UpdateEntryResult(cEntries, cFS, path, CommandHashOf(cmd))
    IN  /\ cEntries' = r.entries
        /\ cRes' = CacheRes("UpdateEntry", path, deps, cmd, FALSE, r.err)
        /\ cSnap' = IF path = Artifact /\ ~r.err THEN cFS[Dependency] ELSE cSnap
        /\ UNCHANGED cFS
        /\ CacheStep

NeedsRebuild(path, deps, cmd) ==
    LET r == NeedsRebuildResult(cEntries, cFS, path, deps, CommandHashOf(cmd))
    IN  /\ cRes' = CacheRes("NeedsRebuild", path, deps, cmd, r.rebuild, r.err)
        /\ UNCHANGED <<cFS, cEntries, cSnap>>
        /\ CacheStep

CacheNext ==
    \/ \E path \in CachePaths, t \in Times, c \in Contents : WriteFile(path, t, c)
    \/ \E path \in CachePaths : RemoveFile(path)
    \/ \E path \in CachePaths, deps \in DepLists, cmd \in CacheCommands : UpdateEntry(path, deps, cmd)
    \/ \E path \in CachePaths, deps \in DepLists, cmd \in CacheCommands : NeedsRebuild(path, deps, cmd)

\* os.IsNotExist of what os.Stat returned, taken for any error of os.Stat
statNotExist_AnyError(fs, path) == StatFails(fs, path)

\* os.IsNotExist of what os.Stat(path) returned
statNotExist(fs, path) == ~fs[path].exists

\* Cache.Clean: the paths RemoveEntry is called for
CleanRemoved(entries, fs) ==
    {path \in CachePaths : entries[path].present /\ statNotExist(fs, path)}

\* Cache.Clean on a loaded cache
CleanEntries ==
    LET removed == CleanRemoved(cEntries, cFS)
    IN  /\ cEntries' = [path \in CachePaths |->
                           IF path \in removed THEN NoEntry ELSE cEntries[path]]
        /\ cRes' = [op |-> "Clean", path |-> "", deps |-> <<>>, cmd |-> NoCommand,
                    rebuild |-> FALSE, err |-> FALSE, removed |-> removed]
        /\ UNCHANGED <<cFS, cSnap>>
        /\ CacheStep

\* a cache in any state, cleaned
CacheCleanNext == CleanEntries

\* the questions put to a cache in any state, about files in any state
CacheFaultNext ==
    \E path \in CachePaths, deps \in DepLists, cmd \in CacheCommands : NeedsRebuild(path, deps, cmd)

CommandHashNext ==
    \/ \E cmd \in FlagCommands : UpdateEntry(Artifact, <<>>, cmd)
    \/ \E cmd \in FlagCommands : NeedsRebuild(Artifact, <<>>, cmd)

(***************************************************************************)
(* The task executor (src/internal/builder/executor.go).                   *)
(* A task is known by its position in eTask (the *Task pointer); its ID is *)
(* a field, and nothing makes two tasks have different IDs.  Dependencies  *)
(* point at tasks created earlier.  A worker is at its select ("select"),  *)
(* holds a dequeued task whose dependencies it is about to check           *)
(* ("check"), is about to put it back ("requeue"), has its command running *)
(* ("run"), is about to send its result ("send"), has returned             *)
(* ("returned") or has panicked ("panic"), which ends the process.         *)
(* The caller is at "new", "started", inside WaitForAll ("wait"), Shutdown *)
(* ("stopping") or ShutdownNow ("cancelling"), or back from them           *)
(* ("returned", "stopped", "cancelled").                                   *)
(***************************************************************************)
\* capacity of Executor.Tasks
TasksCap == 100

\* capacity of Executor.Results
ResultsCap == 100

TaskIDs == 1..MaxIDs

Task(id, dependencies) == [ID |-> id, Dependencies |-> dependencies]

Result(task, success) == [Task |-> task, Success |-> success]

RECURSIVE TaskUniverses(_)
\* the ways of creating n tasks, each depending on tasks created before it
TaskUniverses(n) ==
    IF n = 0 THEN {<<>>}
    ELSE {Append(u, Task(id, deps)) :
             u \in TaskUniverses(n - 1), id \in TaskIDs,
             deps \in SeqsUpTo(1..(n - 1), MaxTaskDeps)}

\* the orders in which a caller may submit some of n tasks, each at most once
Plans(n) == UNION {Perms(S) : S \in SUBSET (1..n)}

Idle == [pc |-> "select", task |-> 0, success |-> FALSE]

Holding(pc, task, success) == [pc |-> pc, task |-> task, success |-> success]

\* an executor with empty channels and an empty completed-set
ExecState(tasks, plan, workerCount, caller, workers) ==
    /\ eTask = tasks
    /\ ePlan = plan
    /\ ePos = 0
    /\ eCaller = caller
    /\ eWorkerCount = workerCount
    /\ eWorker = workers
    /\ eQueue = <<>>
    /\ eClosed = FALSE
    /\ eResults = <<>>
    /\ eCompleted = {}
    /\ eSignalled = {}
    /\ eOut = <<>>

\* NewExecutor(workerCount): no worker runs yet
NewExecutor(tasks, plan, workerCount) == ExecState(tasks, plan, workerCount, "new", <<>>)

\* an executor nobody uses
ExecIdle == NewExecutor(<<>>, <<>>, 1)

\* a caller with some tasks, a submission order and a pool size
ExecInit ==
    \E tasks \in TaskUniverses(MaxTasks), plan \in Plans(MaxTasks), n \in 1..MaxWorkers :
        NewExecutor(tasks, plan, n)

\* one more task than Executor.Results can buffer
ManyTasks == ResultsCap + 1

\* NewExecutor(1) and Start(), and a caller about to submit as many tasks as
\* Executor.Results can buffer, or one more; the tasks have no dependencies
\* and different IDs
ExecManyInit ==
    \E n \in {ResultsCap, ManyTasks} :
        ExecState([t \in 1..n |-> Task(t, <<>>)], [t \in 1..n |-> t], 1, "started", <<Idle>>)

\* the tasks of the retry scenario: one more than ManyTasks
RetryTasks == ManyTasks + 1

\* the order in which the caller of the retry scenario submits its tasks:
\* two tasks without dependencies, then task 2, which depends on task 1,
\* then task 1, then the other tasks
RetryPlan ==
    [i \in 1..RetryTasks |-> IF i <= 2 THEN i + 2 ELSE IF i = 3 THEN 2 ELSE IF i = 4 THEN 1 ELSE i]

\* NewExecutor(1), Start() and as many Submit calls as Executor.Tasks can
\* buffer, before the worker goroutine has taken its first step; the tasks
\* have different IDs and only task 2 has a dependency
ExecRetryInit ==
    /\ eTask = [t \in 1..RetryTasks |-> Task(t, IF t = 2 THEN <<1>> ELSE <<>>)]
    /\ ePlan = RetryPlan
    /\ ePos = TasksCap
    /\ eCaller = "started"
    /\ eWorkerCount = 1
    /\ eWorker = <<Idle>>
    /\ eQueue = SubSeq(RetryPlan, 1, TasksCap)
    /\ eClosed = FALSE
    /\ eResults = <<>>
    /\ eCompleted = {}
    /\ eSignalled = {}
    /\ eOut = <<>>

\* the tasks whose command has been started
Executed ==
    {eWorker[w].task : w \in {v \in DOMAIN eWorker : eWorker[v].pc \in {"run", "send"}}}
        \cup {r.Task : r \in Range(eResults) \cup Range(eOut)}

\* the tasks whose command has returned without error
Succeeded ==
    {eWorker[w].task : w \in {v \in DOMAIN eWorker : eWorker[v].pc = "send" /\ eWorker[v].success}}
        \cup {r.Task : r \in {q \in Range(eResults) \cup Range(eOut) : q.Success}}

\* a panic in any goroutine ends the process
Crashed == \E w \in DOMAIN eWorker : eWorker[w].pc = "panic"

\* the shared context is cancelled: ShutdownNow has called e.Cancel()
Cancelled == eCaller \in {"cancelling", "cancelled"}

\* the number of goroutines Start launches, that launches one too many
StartWorkers_OneMore(workerCount) == workerCount + 1

\* the number of goroutines Start launches
StartWorkers(workerCount) == workerCount

Start ==
    /\ eCaller = "new"
    /\ eWorker' = [w \in 1..StartWorkers(eWorkerCount) |-> Idle]
    /\ eCaller' = "started"
    /\ UNCHANGED <<eTask, ePlan, ePos, eWorkerCount, eQueue, eClosed, eResults,
                   eCompleted, eSignalled, eOut>>
    /\ ExecStep

\* Submit: the send blocks while the buffer is full
Submit(task) ==
    /\ ~Crashed
    /\ eCaller \in {"new", "started"}
    /\ ePos < Len(ePlan) /\ task = ePlan[ePos + 1]
    /\ Len(eQueue) < TasksCap
    /\ eQueue' = Append(eQueue, task)
    /\ ePos' = ePos + 1
    /\ UNCHANGED <<eTask, ePlan, eCaller, eWorkerCount, eWorker, eClosed, eResults,
                   eCompleted, eSignalled, eOut>>
    /\ ExecStep

\* the select receives a task
workerReceive(w) ==
    /\ ~Crashed
    /\ eWorker[w].pc = "select"
    /\ eQueue # <<>>
    /\ eWorker' = [eWorker EXCEPT ![w] = Holding("check", Head(eQueue), FALSE)]
    /\ eQueue' = Tail(eQueue)
    /\ UNCHANGED <<eTask, ePlan, ePos, eCaller, eWorkerCount, eClosed, eResults,
                   eCompleted, eSignalled, eOut>>
    /\ ExecStep

\* the select finds the channel closed and drained: the worker returns
workerReturn(w) ==
    /\ ~Crashed
    /\ eWorker[w].pc = "select"
    /\ eQueue = <<>> /\ eClosed
    /\ eWorker' = [eWorker EXCEPT ![w] = Holding("returned", 0, FALSE)]
    /\ UNCHANGED <<eTask, ePlan, ePos, eCaller, eWorkerCount, eQueue, eClosed, eResults,
                   eCompleted, eSignalled, eOut>>
    /\ ExecStep

\* canExecute that never looks at the completed-set
canExecute_Always(completed, depIDs) == TRUE

\* canExecute: every dependency's ID is mapped to true in the completed-set
canExecute(completed, depIDs) == \A i \in 1..Len(depIDs) : depIDs[i] \in completed

\* the IDs of the tasks in task.Dependencies
DependencyIDs(task) == [i \in 1..Len(eTask[task].Dependencies) |-> eTask[eTask[task].Dependencies[i]].ID]

\* the dependency check: the command is started, or the task is to be
\* requeued; a command of a context that is already cancelled does not start
\* ("norun") and cmd.Run() returns the context's error
workerCheck(w) ==
    /\ ~Crashed
    /\ eWorker[w].pc = "check"
    /\ eWorker' = [eWorker EXCEPT ![w].pc =
                      IF canExecute(eCompleted, DependencyIDs(eWorker[w].task))
                      THEN (IF Cancelled THEN "norun" ELSE "run") ELSE "requeue"]
    /\ UNCHANGED <<eTask, ePlan, ePos, eCaller, eWorkerCount, eQueue, eClosed, eResults,
                   eCompleted, eSignalled, eOut>>
    /\ ExecStep

\* e.Tasks <- task: panics on a closed channel, blocks while the buffer is full
workerRequeue(w) ==
    /\ ~Crashed
    /\ eWorker[w].pc = "requeue"
    /\ eClosed \/ Len(eQueue) < TasksCap
    /\ IF eClosed
       THEN /\ eWorker' = [eWorker EXCEPT ![w].pc = "panic"]
            /\ UNCHANGED eQueue
       ELSE /\ eWorker' = [eWorker EXCEPT ![w] = Idle]
            /\ eQueue' = Append(eQueue, eWorker[w].task)
    /\ UNCHANGED <<eTask, ePlan, ePos, eCaller, eWorkerCount, eClosed, eResults,
                   eCompleted, eSignalled, eOut>>
    /\ ExecStep

\* the completed-set after a command returned, that marks the ID whatever
\* the command returned
markCompleted_OnFailureToo(completed, id, ok) == completed \cup {id}

\* the completed-set after a command returned: the ID is marked on success only
markCompleted(completed, id, ok) == IF ok THEN completed \cup {id} ELSE completed

\* cmd.Run() returns, with an error or not: the ID is marked completed on
\* success only, CompleteCh is closed either way
workerRun(w, ok) ==
    /\ ~Crashed
    /\ eWorker[w].pc \in {"run", "norun"}
    /\ ok => eWorker[w].pc = "run"
    /\ eCompleted' = markCompleted(eCompleted, eTask[eWorker[w].task].ID, ok)
    /\ eSignalled' = eSignalled \cup {eWorker[w].task}
    /\ eWorker' = [eWorker EXCEPT ![w] = Holding("send", eWorker[w].task, ok)]
    /\ UNCHANGED <<eTask, ePlan, ePos, eCaller, eWorkerCount, eQueue, eClosed, eResults, eOut>>
    /\ ExecStep

\* e.Results <- result: blocks while the buffer is full
workerSend(w) ==
    /\ ~Crashed
    /\ eWorker[w].pc = "send"
    /\ Len(eResults) < ResultsCap
    /\ eResults' = Append(eResults, Result(eWorker[w].task, eWorker[w].success))
    /\ eWorker' = [eWorker EXCEPT ![w] = Idle]
    /\ UNCHANGED <<eTask, ePlan, ePos, eCaller, eWorkerCount, eQueue, eClosed,
                   eCompleted, eSignalled, eOut>>
    /\ ExecStep

\* task.Error != nil: a worker has set it when the command returned an error
taskError(task) ==
    \/ \E w \in DOMAIN eWorker :
         eWorker[w].pc = "send" /\ eWorker[w].task = task /\ ~eWorker[w].success
    \/ \E r \in Range(eResults) \cup Range(eOut) : r.Task = task /\ ~r.Success

\* task.CompleteCh != nil: Submit has made it
hasCompleteCh(task) == \E i \in 1..ePos : ePlan[i] = task

NoResult == [op |-> "", Task |-> 0, Success |-> FALSE, nil |-> TRUE]

WaitRes(task, success, nil) == [op |-> "WaitForTask", Task |-> task, Success |-> success, nil |-> nil]

\* nobody has called WaitForTask
WaitIdle == wResult = NoResult

\* the receive from CompleteCh that does not wait
completionFired_Always(signalled, task) == TRUE

\* <-task.CompleteCh: the receive returns once the channel is closed
completionFired(signalled, task) == task \in signalled

\* WaitForTask(task), called from any goroutine: nil for a task without
\* CompleteCh, otherwise the Result made from the fields of the task once
\* CompleteCh is closed
WaitForTask(task) ==
    /\ ~Crashed
    /\ wResult = NoResult
    /\ IF ~hasCompleteCh(task)
       THEN wResult' = WaitRes(task, FALSE, TRUE)
       ELSE /\ completionFired(eSignalled, task)
            /\ wResult' = WaitRes(task, ~taskError(task), FALSE)
    /\ UNCHANGED <<gvars, cvars, evars, bvars, pvars, dvars, fvars, ovars, svars>>

\* WaitForAll, first half: close(e.Tasks), then the caller waits for the pool
WaitForAllClose ==
    /\ ~Crashed
    /\ eCaller = "started"
    /\ ePos = Len(ePlan)
    /\ eClosed' = TRUE
    /\ eCaller' = "wait"
    /\ UNCHANGED <<eTask, ePlan, ePos, eWorkerCount, eWorker, eQueue, eResults,
                   eCompleted, eSignalled, eOut>>
    /\ ExecStep

\* WaitForAll, second half: every worker has returned; Results is closed and
\* drained into the list that is returned
WaitForAllCollect ==
    /\ ~Crashed
    /\ eCaller = "wait"
    /\ \A w \in DOMAIN eWorker : eWorker[w].pc = "returned"
    /\ eOut' = eResults
    /\ eResults' = <<>>
    /\ eCaller' = "returned"
    /\ UNCHANGED <<eTask, ePlan, ePos, eWorkerCount, eWorker, eQueue, eClosed,
                   eCompleted, eSignalled>>
    /\ ExecStep

\* the select finds the context cancelled: the worker returns
workerDone(w) ==
    /\ ~Crashed
    /\ eWorker[w].pc = "select"
    /\ Cancelled
    /\ eWorker' = [eWorker EXCEPT ![w] = Holding("returned", 0, FALSE)]
    /\ UNCHANGED <<eTask, ePlan, ePos, eCaller, eWorkerCount, eQueue, eClosed, eResults,
                   eCompleted, eSignalled, eOut>>
    /\ ExecStep

\* Shutdown, first half: close(e.Tasks), then the caller waits for the pool
ShutdownClose ==
    /\ ~Crashed
    /\ eCaller = "started"
    /\ eClosed' = TRUE
    /\ eCaller' = "stopping"
    /\ UNCHANGED <<eTask, ePlan, ePos, eWorkerCount, eWorker, eQueue, eResults,
                   eCompleted, eSignalled, eOut>>
    /\ ExecStep

\* Shutdown, second half: every worker has returned; Results is closed
ShutdownReturn ==
    /\ ~Crashed
    /\ eCaller = "stopping"
    /\ \A w \in DOMAIN eWorker : eWorker[w].pc = "returned"
    /\ eCaller' = "stopped"
    /\ UNCHANGED <<eTask, ePlan, ePos, eWorkerCount, eWorker, eQueue, eClosed, eResults,
                   eCompleted, eSignalled, eOut>>
    /\ ExecStep

\* ShutdownNow, first half: e.Cancel(), then the caller waits for the pool
ShutdownNowCancel ==
    /\ ~Crashed
    /\ eCaller = "started"
    /\ eCaller' = "cancelling"
    /\ UNCHANGED <<eTask, ePlan, ePos, eWorkerCount, eWorker, eQueue, eClosed, eResults,
                   eCompleted, eSignalled, eOut>>
    /\ ExecStep

\* ShutdownNow, second half: every worker has returned; Tasks and Results
\* are closed
ShutdownNowClose ==
    /\ ~Crashed
    /\ eCaller = "cancelling"
    /\ \A w \in DOMAIN eWorker : eWorker[w].pc = "returned"
    /\ eClosed' = TRUE
    /\ eCaller' = "cancelled"
    /\ UNCHANGED <<eTask, ePlan, ePos, eWorkerCount, eWorker, eQueue, eResults,
                   eCompleted, eSignalled, eOut>>
    /\ ExecStep

\* every call of the executor: the caller ends with WaitForAll, Shutdown or
\* ShutdownNow
ExecStopNext ==
    \/ Start
    \/ \E task \in DOMAIN eTask : Submit(task)
    \/ \E w \in DOMAIN eWorker : workerReceive(w)
    \/ \E w \in DOMAIN eWorker : workerReturn(w)
    \/ \E w \in DOMAIN eWorker : workerDone(w)
    \/ \E w \in DOMAIN eWorker : workerCheck(w)
    \/ \E w \in DOMAIN eWorker : workerRequeue(w)
    \/ \E w \in DOMAIN eWorker, ok \in BOOLEAN : workerRun(w, ok)
    \/ \E w \in DOMAIN eWorker : workerSend(w)
    \/ WaitForAllClose
    \/ WaitForAllCollect
    \/ ShutdownClose
    \/ ShutdownReturn
    \/ ShutdownNowCancel
    \/ ShutdownNowClose

ExecNext ==
    \/ Start
    \/ \E task \in DOMAIN eTask : Submit(task)
    \/ \E w \in DOMAIN eWorker : workerReceive(w)
    \/ \E w \in DOMAIN eWorker : workerReturn(w)
    \/ \E w \in DOMAIN eWorker : workerCheck(w)
    \/ \E w \in DOMAIN eWorker : workerRequeue(w)
    \/ \E w \in DOMAIN eWorker, ok \in BOOLEAN : workerRun(w, ok)
    \/ \E w \in DOMAIN eWorker : workerSend(w)
    \/ WaitForAllClose
    \/ WaitForAllCollect

\* the executor with a goroutine that waits for one task
ExecWaitNext ==
    \/ Start
    \/ \E task \in DOMAIN eTask : Submit(task)
    \/ \E w \in DOMAIN eWorker : workerReceive(w)
    \/ \E w \in DOMAIN eWorker : workerReturn(w)
    \/ \E w \in DOMAIN eWorker : workerCheck(w)
    \/ \E w \in DOMAIN eWorker : workerRequeue(w)
    \/ \E w \in DOMAIN eWorker, ok \in BOOLEAN : workerRun(w, ok)
    \/ \E w \in DOMAIN eWorker : workerSend(w)
    \/ WaitForAllClose
    \/ WaitForAllCollect
    \/ \E task \in DOMAIN eTask : WaitForTask(task)

\* the steps of a started executor whose tasks have no dependencies and
\* whose commands all succeed
ExecManyNext ==
    \/ \E task \in DOMAIN eTask : Submit(task)
    \/ \E w \in DOMAIN eWorker : workerReceive(w)
    \/ \E w \in DOMAIN eWorker : workerReturn(w)
    \/ \E w \in DOMAIN eWorker : workerCheck(w)
    \/ \E w \in DOMAIN eWorker : workerRun(w, TRUE)
    \/ \E w \in DOMAIN eWorker : workerSend(w)
    \/ WaitForAllClose
    \/ WaitForAllCollect


\* the steps of the caller of the retry scenario: it only submits
ExecRetryCaller == \E task \in DOMAIN eTask : Submit(task)

\* the steps of the workers of a pool that is never shut down and whose
\* commands all succeed
ExecRetryWorkers ==
    \/ \E w \in DOMAIN eWorker : workerReceive(w)
    \/ \E w \in DOMAIN eWorker : workerCheck(w)
    \/ \E w \in DOMAIN eWorker : workerRequeue(w)
    \/ \E w \in DOMAIN eWorker : workerRun(w, TRUE)
    \/ \E w \in DOMAIN eWorker : workerSend(w)

ExecRetryNext == ExecRetryCaller \/ ExecRetryWorkers

(***************************************************************************)
(* The build orchestrator (src/internal/builder/builder.go).               *)
(* A project has MaxSources source files, one header that some of them     *)
(* include, and no pre-build or post-build command.  One Build step is one *)
(* run of the program: NewBuilder loads the cache file, Build decides      *)
(* which sources to compile, runs the compile tasks and the link task on   *)
(* its executor, records the objects it compiled and saves the cache file. *)
(* Between two runs cEntries is the content of the cache file.  The linked *)
(* executable is read by no decision of Build and is not kept.             *)
(***************************************************************************)
Sources == 1..MaxSources

Source(s) == <<"src", s>>

Header == <<"hdr", 0>>

\* getObjectFilePath: one object file per source file
Object(s) == <<"obj", s>>

BuildPaths == {Source(s) : s \in Sources} \cup {Object(s) : s \in Sources} \cup {Header}

\* the configurations: a compiler, no flag
BuildCommands == {CommandLine(c, <<>>) : c \in Compilers}

BuildRes(op, tasks, err, unchanged) == [op |-> op, tasks |-> tasks, err |-> err, unchanged |-> unchanged]

\* a fresh project: sources and header written, nothing built, no cache file
BuildInit ==
    /\ cFS = [p \in BuildPaths |->
                IF p \in {Object(s) : s \in Sources} THEN NoFile ELSE File(1, 1)]
    /\ cEntries = [p \in BuildPaths |-> NoEntry]
    /\ cRes = CacheRes("Load", "", <<>>, NoCommand, FALSE, FALSE)
    /\ cSnap = NoFile
    /\ bNow = 1
    /\ bCommand \in BuildCommands
    /\ bIncludes \in [Sources -> BOOLEAN]
    /\ bBuild = BuildRes("NewBuilder", {}, "", FALSE)
    /\ bClean = FALSE

\* the list scheduleCompilationTasks passes for a source: the source file,
\* then the headers the scanner found
dependenciesOf(includes, s) == <<Source(s)>> \o (IF includes[s] THEN <<Header>> ELSE <<>>)

\* Builder.needsRebuild: the cache's answer when it says rebuild without an
\* error, else the comparison of modification times; when os.Stat of the
\* object file failed with another error than "does not exist", objInfo is
\* nil and objInfo.ModTime() panics
needsRebuild(entries, fs, objectFile, dependencies, commandHash) ==
    LET r == NeedsRebuildResult(entries, fs, objectFile, dependencies, commandHash)
    IN  IF ~r.err /\ r.rebuild
        THEN [rebuild |-> TRUE, reason |-> "cache indicates rebuild needed"]
        ELSE IF ~fs[objectFile].exists
        THEN [rebuild |-> TRUE, reason |-> "object file doesn't exist"]
        ELSE IF StatFails(fs, dependencies[1])
        THEN [rebuild |-> TRUE, reason |-> "cannot stat source file"]
        ELSE IF StatFails(fs, objectFile)
        THEN [rebuild |-> FALSE, reason |-> "panic"]
        ELSE IF fs[dependencies[1]].mtime > fs[objectFile].mtime
        THEN [rebuild |-> TRUE, reason |-> "source file modified"]
        ELSE IF \E i \in 2..Len(dependencies) :
                    /\ \A j \in 2..(i - 1) : ~StatFails(fs, dependencies[j])
                                             /\ fs[dependencies[j]].mtime <= fs[objectFile].mtime
                    /\ StatFails(fs, dependencies[i])
        THEN [rebuild |-> TRUE, reason |-> "cannot stat dependency"]
        ELSE IF \E i \in 2..Len(dependencies) : fs[dependencies[i]].mtime > fs[objectFile].mtime
        THEN [rebuild |-> TRUE, reason |-> "dependency modified"]
        ELSE [rebuild |-> FALSE, reason |-> "up to date"]

\* the sources scheduleCompilationTasks creates a compile task for: those
\* needsRebuild asks to rebuild, or gives no reason for
filesToCompile(entries, fs, includes, commandHash) ==
    {s \in Sources :
        LET r == needsRebuild(entries, fs, Object(s), dependenciesOf(includes, s), commandHash)
        IN  r.reason = "" \/ r.rebuild}

\* what the compiler writes for a source: it depends on the source and, when
\* included, on the header
ObjectCode(fs, includes, s) ==
    <<fs[Source(s)].content, IF includes[s] THEN fs[Header].content ELSE 0>>

\* the files after the compile tasks of the sources in ok succeeded at time now
Compiled(fs, includes, ok, now) ==
    [p \in BuildPaths |->
        IF \E s \in ok : p = Object(s)
        THEN File(now, ObjectCode(fs, includes, CHOOSE s \in ok : p = Object(s)))
        ELSE fs[p]]

RECURSIVE UpdateEntries(_, _, _, _)
\* the loop over the finished tasks: UpdateEntry of the object of each task
\* that succeeded
UpdateEntries(entries, fs, ok, commandHash) ==
    IF ok = {} THEN entries
    ELSE LET s == CHOOSE x \in ok : \A y \in ok : x <= y
         IN  UpdateEntries(UpdateEntryResult(entries, fs, Object(s), commandHash).entries,
                           fs, ok \ {s}, commandHash)

\* time passes
Tick ==
    /\ bNow < MaxClock
    /\ bNow' = bNow + 1
    /\ UNCHANGED <<bCommand, bIncludes, bBuild, bClean, cFS, cEntries>>
    /\ BuildStep

\* the developer saves a source file or the header
EditFile(path, c) ==
    /\ cFS[path] # File(bNow, c)
    /\ cFS' = [cFS EXCEPT ![path] = File(bNow, c)]
    /\ bClean' = FALSE
    /\ UNCHANGED <<bNow, bCommand, bIncludes, bBuild, cEntries>>
    /\ BuildStep

\* the developer changes the compiler of the configuration
ChangeCommand(cmd) ==
    /\ cmd # bCommand
    /\ bCommand' = cmd
    /\ bClean' = FALSE
    /\ UNCHANGED <<bNow, bIncludes, bBuild, cFS, cEntries>>
    /\ BuildStep

\* the staleness decision of some source file panics: the process ends
\* before any task is submitted
decisionPanics(entries, fs, includes, commandHash) ==
    \E s \in Sources :
        needsRebuild(entries, fs, Object(s), dependenciesOf(includes, s), commandHash).reason = "panic"

\* the environment takes a permission away from an object file or gives it
\* back: its modification time and its content stay as they are
Chmod(path, fault) ==
    /\ cFS[path].exists
    /\ cFS[path].fault # fault
    /\ cFS' = [cFS EXCEPT ![path].fault = fault]
    /\ UNCHANGED <<bNow, bCommand, bIncludes, bBuild, bClean, cEntries>>
    /\ BuildStep

\* one run of Build: ok are the compile tasks whose command succeeds
Build(ok, linkOk, saveOk) ==
    LET commandHash == CalculateCommandHash(bCommand.command, bCommand.args)
        panics == decisionPanics(cEntries, cFS, bIncludes, commandHash)
        tasks == IF panics THEN {} ELSE filesToCompile(cEntries, cFS, bIncludes, commandHash)
        compiled == Compiled(cFS, bIncludes, ok, bNow)
        entries == UpdateEntries(cEntries, compiled, ok, commandHash)
        err == IF panics THEN "panic"
               ELSE IF ok # tasks THEN "compilation failed"
               ELSE IF ~linkOk THEN "linking failed" ELSE ""
    IN  /\ ok \subseteq tasks
        /\ cFS' = compiled
        /\ cEntries' = IF err = "" /\ saveOk THEN entries ELSE cEntries
        /\ bBuild' = BuildRes("Build", tasks, err, bClean)
        /\ bClean' = (err = "" /\ saveOk)
        /\ UNCHANGED <<bNow, bCommand, bIncludes>>
        /\ BuildStep

BuildNext ==
    \/ Tick
    \/ \E s \in Sources, c \in Contents : EditFile(Source(s), c)
    \/ \E c \in Contents : EditFile(Header, c)
    \/ \E cmd \in BuildCommands : ChangeCommand(cmd)
    \/ \E ok \in SUBSET Sources, linkOk, saveOk \in BOOLEAN : Build(ok, linkOk, saveOk)

\* what the compilation phase leaves in bBuild: the tasks it created, those
\* that succeeded, and the parity of the number of phases run so far
CompileRes(tasks, ok, err, calls) ==
    [op |-> "Compile", tasks |-> tasks, ok |-> ok, err |-> err, calls |-> calls]

\* scheduleCompilationTasks on a builder whose cache is cEntries: ok are the
\* compile tasks whose command exits without error, written those of them
\* whose command wrote the object file; the others leave it as it was
Compile(ok, written) ==
    LET commandHash == CalculateCommandHash(bCommand.command, bCommand.args)
        panics == decisionPanics(cEntries, cFS, bIncludes, commandHash)
        tasks == IF panics THEN {} ELSE filesToCompile(cEntries, cFS, bIncludes, commandHash)
        compiled == Compiled(cFS, bIncludes, written, bNow)
        err == IF panics THEN "panic"
               ELSE IF ok # tasks THEN "compilation failed" ELSE ""
        calls == IF bBuild.op = "Compile" THEN 1 - bBuild.calls ELSE 0
    IN  /\ ok \subseteq tasks
        /\ written \subseteq ok
        /\ cFS' = compiled
        /\ cEntries' = UpdateEntries(cEntries, compiled, ok, commandHash)
        /\ bBuild' = CompileRes(tasks, ok, err, calls)
        /\ bClean' = FALSE
        /\ UNCHANGED <<bNow, bCommand, bIncludes>>
        /\ BuildStep

\* the compilation phases of one builder, in an environment where files are
\* edited and permissions change
CompileNext ==
    \/ Tick
    \/ \E s \in Sources, c \in Contents : EditFile(Source(s), c)
    \/ \E c \in Contents : EditFile(Header, c)
    \/ \E cmd \in BuildCommands : ChangeCommand(cmd)
    \/ \E s \in Sources, fault \in Faults \cup {""} : Chmod(Object(s), fault)
    \/ \E ok \in SUBSET Sources, written \in SUBSET Sources : Compile(ok, written)

\* the runs of Build in an environment where permissions change too
BuildFaultNext ==
    \/ Tick
    \/ \E s \in Sources, c \in Contents : EditFile(Source(s), c)
    \/ \E c \in Contents : EditFile(Header, c)
    \/ \E cmd \in BuildCommands : ChangeCommand(cmd)
    \/ \E s \in Sources, fault \in Faults \cup {""} : Chmod(Object(s), fault)
    \/ \E ok \in SUBSET Sources, linkOk, saveOk \in BOOLEAN : Build(ok, linkOk, saveOk)

(***************************************************************************)
(* One call of Builder.Build, phase by phase                               *)
(* (src/internal/builder/builder.go), on the executor above.               *)
(* The configuration lists pre-build and post-build commands: "true"       *)
(* exits with status 0, "false" with status 1, " " is a blank line.  Each  *)
(* matched source file is up to date ("fresh"), or stale and compiles      *)
(* ("ok") or stale and does not compile ("bad").  Build is where pPhase    *)
(* and pPc say: running the code of the phase ("run"), blocked in          *)
(* WaitForTask ("wait"), in the deferred Shutdown ("shutdown") or back at  *)
(* its caller ("returned").  The tasks Build creates are appended to       *)
(* eTask as it submits them.                                               *)
(***************************************************************************)
Phases == <<"pre-build", "discovery", "scan", "compile", "artifact", "post-build", "persist">>

CommandLines == {"true", "false", " "}

SourceStates == {"fresh", "ok", "bad"}

OutputTypes == {"executable", "static_lib", "shared_lib", "plugin"}

\* the configurations and projects of a Build call
Configs ==
    [pre : SeqsUpTo(CommandLines, MaxCmds),
     post : SeqsUpTo(CommandLines, MaxCmds),
     sources : SeqsUpTo(SourceStates, MaxMatched),
     output : OutputTypes,
     artifactOk : BOOLEAN,
     workers : 1..MaxWorkers]

\* strings.Fields of a command line
Fields(cmdStr) == IF cmdStr = " " THEN <<>> ELSE <<cmdStr>>

\* the path of the i-th matched source file
SourceFile(i) == "src" \o ToString(i)

\* whether the command of a task exits with status 0
ExitsZero(id) ==
    CASE id \in {"pre-build-true", "post-build-true"} -> TRUE
      [] id \in {"pre-build-false", "post-build-false"} -> FALSE
      [] id \in {"link", "shared_lib"} -> pConfig.artifactOk
      [] OTHER -> \E i \in 1..Len(pConfig.sources) :
                     id = SourceFile(i) /\ pConfig.sources[i] = "ok"

\* NewBuilder, and Build about to run its pre-build commands
PhaseState(cfg, phase, pc) ==
    /\ pConfig = cfg
    /\ pPhase = phase
    /\ pPc = pc
    /\ pIdx = 1
    /\ pErrors = <<>>
    /\ pErr = ""
    /\ pSaved = "none"

\* no Build call is looked at phase by phase
PhaseIdle ==
    PhaseState([pre |-> <<>>, post |-> <<>>, sources |-> <<>>, output |-> "executable",
                artifactOk |-> TRUE, workers |-> 1], "pre-build", "returned")

PhaseInit ==
    \E cfg \in Configs :
        /\ PhaseState(cfg, "pre-build", "run")
        /\ NewExecutor(<<>>, <<>>, cfg.workers)

\* Executor.Submit of newly created tasks, in order
SubmitTasks(ids) ==
    /\ eTask' = eTask \o [i \in 1..Len(ids) |-> Task(ids[i], <<>>)]
    /\ eQueue' = eQueue \o [i \in 1..Len(ids) |-> Len(eTask) + i]
    /\ ePlan' = ePlan \o [i \in 1..Len(ids) |-> Len(eTask) + i]
    /\ ePos' = ePos + Len(ids)

NoSubmit == UNCHANGED <<eTask, eQueue, ePlan, ePos>>

\* Build goes on, in the same phase or in the next
Goto(phase, pc, idx) ==
    /\ pPhase' = phase
    /\ pPc' = pc
    /\ pIdx' = idx
    /\ UNCHANGED pErr

\* Build executes a return statement: the deferred Shutdown, if registered,
\* runs before the caller has the value
Return(err) ==
    /\ pErr' = err
    /\ pPc' = IF eCaller = "started" THEN "shutdown" ELSE "returned"
    /\ UNCHANGED <<pPhase, pIdx>>

\* the test Build applies to what WaitForTask returned, that never sees a
\* failure
resultFailed_Never(success) == FALSE

\* the test Build applies to what WaitForTask returned
resultFailed(success) == ~success

\* one iteration of the loop over a command list, up to its WaitForTask:
\* a blank line is skipped, a command is submitted; after the last command
\* Build goes on to the next phase
executeCommands(phase, cmds, prefix, next) ==
    /\ pPhase = phase /\ pPc = "run"
    /\ IF pIdx > Len(cmds)
       THEN Goto(next, "run", 1) /\ NoSubmit
       ELSE IF Fields(cmds[pIdx]) = <<>>
            THEN Goto(phase, "run", pIdx + 1) /\ NoSubmit
            ELSE Goto(phase, "wait", pIdx) /\ SubmitTasks(<<prefix \o Fields(cmds[pIdx])[1]>>)
    /\ UNCHANGED <<eCaller, eWorkerCount, eWorker, eClosed, eResults, eCompleted,
                   eSignalled, eOut, pConfig, pErrors, pSaved>>
    /\ PhaseStep

\* WaitForTask on the command just submitted returns
waitCommand(phase, err) ==
    /\ pPhase = phase /\ pPc = "wait"
    /\ Len(eTask) \in eSignalled
    /\ IF resultFailed(Len(eTask) \in Succeeded)
       THEN Return(err)
       ELSE Goto(phase, "run", pIdx + 1)
    /\ UNCHANGED <<evars, pConfig, pErrors, pSaved>>
    /\ PhaseStep

executePreBuildCommands ==
    executeCommands("pre-build", pConfig.pre, "pre-build-", "discovery")

waitPreBuildCommand == waitCommand("pre-build", "pre-build commands failed")

executePostBuildCommands ==
    executeCommands("post-build", pConfig.post, "post-build-", "persist")

waitPostBuildCommand == waitCommand("post-build", "post-build commands failed")

\* the test for an empty match, that never finds one
noSourceFiles_Never(sourceFiles) == FALSE

\* len(sourceFiles) == 0
noSourceFiles(sourceFiles) == Len(sourceFiles) = 0

\* FindSourceFiles, which may fail, and the test for an empty match
findSourceFiles(err) ==
    /\ pPhase = "discovery" /\ pPc = "run"
    /\ IF err THEN Return("failed to find source files")
       ELSE IF noSourceFiles(pConfig.sources) THEN Return("no source files found")
       ELSE Goto("scan", "run", 1)
    /\ UNCHANGED <<evars, pConfig, pErrors, pSaved>>
    /\ PhaseStep

\* buildDependencyGraph, which may fail; then Executor.Start() and the
\* registration of the deferred Shutdown
buildDependencyGraph(err) ==
    /\ pPhase = "scan" /\ pPc = "run"
    /\ IF err
       THEN Return("failed to build dependency graph") /\ UNCHANGED <<eWorker, eCaller>>
       ELSE /\ Goto("compile", "run", 1)
            /\ eWorker' = [w \in 1..StartWorkers(eWorkerCount) |-> Idle]
            /\ eCaller' = "started"
    /\ UNCHANGED <<eTask, ePlan, ePos, eWorkerCount, eQueue, eClosed, eResults,
                   eCompleted, eSignalled, eOut, pConfig, pErrors, pSaved>>
    /\ PhaseStep

\* the matched source files that are not up to date, in order
staleSources(sources) == SelectSeq([i \in 1..Len(sources) |-> i], LAMBDA i : sources[i] # "fresh")

\* scheduleCompilationTasks up to its first WaitForTask: one task per stale
\* source file, then every task is submitted
scheduleCompilationTasks ==
    /\ pPhase = "compile" /\ pPc = "run"
    /\ SubmitTasks([k \in 1..Len(staleSources(pConfig.sources)) |->
                       SourceFile(staleSources(pConfig.sources)[k])])
    /\ Goto("compile", "wait", 1)
    /\ UNCHANGED <<eCaller, eWorkerCount, eWorker, eClosed, eResults, eCompleted,
                   eSignalled, eOut, pConfig, pErrors, pSaved>>
    /\ PhaseStep

\* the k-th compile task: the compile tasks are the last tasks created
compileTask(k) == Len(eTask) - Len(staleSources(pConfig.sources)) + k

\* compilationErrors after a failed compilation, that keeps the first only
recordFailure_FirstOnly(errors, sourceFile) ==
    IF errors = <<>> THEN <<sourceFile>> ELSE errors

\* compilationErrors after a failed compilation
recordFailure(errors, sourceFile) == Append(errors, sourceFile)

\* the test after the loop, that never sees a failed compilation
compilationFailed_Never(errors) == FALSE

\* len(compilationErrors) > 0
compilationFailed(errors) == Len(errors) > 0

\* one iteration of the loop that waits for the compile tasks, and what
\* follows the loop
waitCompilationTasks ==
    /\ pPhase = "compile" /\ pPc = "wait"
    /\ IF pIdx <= Len(staleSources(pConfig.sources))
       THEN /\ compileTask(pIdx) \in eSignalled
            /\ pErrors' = IF resultFailed(compileTask(pIdx) \in Succeeded)
                          THEN recordFailure(pErrors, eTask[compileTask(pIdx)].ID)
                          ELSE pErrors
            /\ Goto("compile", "wait", pIdx + 1)
       ELSE /\ IF compilationFailed(pErrors)
               THEN Return("failed to compile source files")
               ELSE Goto("artifact", "run", 1)
            /\ UNCHANGED pErrors
    /\ UNCHANGED <<evars, pConfig, pSaved>>
    /\ PhaseStep

\* the switch on the output type: a link or shared-library task is
\* submitted, a static library is archived by Build itself
scheduleArtifact ==
    /\ pPhase = "artifact" /\ pPc = "run"
    /\ CASE pConfig.output = "executable" ->
              Goto("artifact", "wait", 1) /\ SubmitTasks(<<"link">>)
         [] pConfig.output = "shared_lib" ->
              Goto("artifact", "wait", 1) /\ SubmitTasks(<<"shared_lib">>)
         [] pConfig.output = "static_lib" ->
              /\ IF pConfig.artifactOk THEN Goto("post-build", "run", 1)
                 ELSE Return("failed to create static library")
              /\ NoSubmit
         [] OTHER -> Return("unsupported output type") /\ NoSubmit
    /\ UNCHANGED <<eCaller, eWorkerCount, eWorker, eClosed, eResults, eCompleted,
                   eSignalled, eOut, pConfig, pErrors, pSaved>>
    /\ PhaseStep

\* WaitForTask on the link or shared-library task returns
waitArtifact ==
    /\ pPhase = "artifact" /\ pPc = "wait"
    /\ Len(eTask) \in eSignalled
    /\ IF resultFailed(Len(eTask) \in Succeeded)
       THEN Return(IF pConfig.output = "executable" THEN "failed to link object files"
                   ELSE "failed to create shared library")
       ELSE Goto("post-build", "run", 1)
    /\ UNCHANGED <<evars, pConfig, pErrors, pSaved>>
    /\ PhaseStep

\* what Build returns after Cache.Save, that returns the error of a failed
\* Save
afterSave_ReturnsError(saveOk) == IF saveOk THEN "nil" ELSE "failed to save build cache"

\* what Build returns after Cache.Save: the error of Save is only logged
afterSave(saveOk) == "nil"

\* Cache.Save, whose failure is logged, and return nil
saveCache(saveOk) ==
    /\ pPhase = "persist" /\ pPc = "run"
    /\ pSaved' = IF saveOk THEN "saved" ELSE "failed"
    /\ Return(afterSave(saveOk))
    /\ UNCHANGED <<evars, pConfig, pErrors>>
    /\ PhaseStep

\* the deferred Shutdown, first half: close(e.Tasks)
deferredShutdown ==
    /\ ~Crashed
    /\ pPc = "shutdown" /\ eCaller = "started"
    /\ eClosed' = TRUE
    /\ eCaller' = "stopping"
    /\ UNCHANGED <<eTask, ePlan, ePos, eWorkerCount, eWorker, eQueue, eResults,
                   eCompleted, eSignalled, eOut, pvars>>
    /\ PhaseStep

\* the deferred Shutdown, second half: the workers have returned, Results is
\* closed, and Build is back at its caller
deferredShutdownReturns ==
    /\ ~Crashed
    /\ pPc = "shutdown" /\ eCaller = "stopping"
    /\ \A w \in DOMAIN eWorker : eWorker[w].pc = "returned"
    /\ eCaller' = "stopped"
    /\ pPc' = "returned"
    /\ UNCHANGED <<eTask, ePlan, ePos, eWorkerCount, eWorker, eQueue, eClosed, eResults,
                   eCompleted, eSignalled, eOut, pConfig, pPhase, pIdx, pErrors, pErr, pSaved>>
    /\ PhaseStep

\* the steps of Build
PhaseBuild ==
    \/ executePreBuildCommands
    \/ waitPreBuildCommand
    \/ \E err \in BOOLEAN : findSourceFiles(err)
    \/ \E err \in BOOLEAN : buildDependencyGraph(err)
    \/ scheduleCompilationTasks
    \/ waitCompilationTasks
    \/ scheduleArtifact
    \/ waitArtifact
    \/ executePostBuildCommands
    \/ waitPostBuildCommand
    \/ \E saveOk \in BOOLEAN : saveCache(saveOk)
    \/ deferredShutdown
    \/ deferredShutdownReturns

\* the steps of the workers of Build's executor; a command exits as its
\* command line or its source file makes it
PhaseWorkers ==
    \/ \E w \in DOMAIN eWorker : workerReceive(w)
    \/ \E w \in DOMAIN eWorker : workerReturn(w)
    \/ \E w \in DOMAIN eWorker : workerCheck(w)
    \/ \E w \in DOMAIN eWorker :
          eWorker[w].task # 0 /\ workerRun(w, ExitsZero(eTask[eWorker[w].task].ID))
    \/ \E w \in DOMAIN eWorker : workerSend(w)

PhaseNext == PhaseBuild \/ PhaseWorkers

(***************************************************************************)
(* The cache document (src/unnamed/part_003, Load and Save) and            *)
(* Builder.Clean (src/internal/builder/builder.go).  The cache file is     *)
(* missing, unreadable, not JSON, or a document with a version and the     *)
(* keys of its entries; its directory is there, can be created, or cannot  *)
(* ("blocked").  The keys are object files, one per target.                *)
(***************************************************************************)
CurrentVersion == "1.0"

Versions == {CurrentVersion, "0.9"}

DocTargets == {"debug", "release"}

\* the object file of the project's source under the output directory of a target
ObjectOf(target) == <<"build", target>>

DocObjects == {ObjectOf(target) : target \in DocTargets}

NoDocument == [state |-> "missing", version |-> "", entries |-> {}, bare |-> FALSE]

Unreadable == [state |-> "unreadable", version |-> "", entries |-> {}, bare |-> FALSE]

Malformed == [state |-> "malformed", version |-> "", entries |-> {}, bare |-> FALSE]

Document(version, entries) ==
    [state |-> "document", version |-> version, entries |-> entries, bare |-> FALSE]

\* a document with no "entries" field, or with null for it
BareDocument(version) ==
    [state |-> "document", version |-> version, entries |-> {}, bare |-> TRUE]

DocFiles ==
    {NoDocument, Unreadable, Malformed}
        \cup {Document(version, entries) : version \in Versions, entries \in SUBSET DocObjects}
        \cup {BareDocument(version) : version \in Versions}

\* Cache.BuildCache: the nil pointer, or a BuildCache; EntriesNil says that
\* its Entries map is the nil map
NilCache == [nil |-> TRUE, Version |-> "", Entries |-> {}, EntriesNil |-> FALSE]

BuildCacheOf(version, entries) ==
    [nil |-> FALSE, Version |-> version, Entries |-> entries, EntriesNil |-> FALSE]

\* &BuildCache{}: no make(map) has run
ZeroBuildCache == [nil |-> FALSE, Version |-> "", Entries |-> {}, EntriesNil |-> TRUE]

DocRes(op, err) == [op |-> op, err |-> err]

\* a cache nobody loads
DocIdle ==
    /\ dDir = "present"
    /\ dFile = NoDocument
    /\ dObjects = {}
    /\ dCache = NilCache
    /\ dRes = DocRes("NewCache", "")

\* NewCache, on any disk: a directory that is not there holds no file
DocInit ==
    /\ dDir \in {"present", "absent", "blocked"}
    /\ dFile \in DocFiles
    /\ dDir # "present" => dFile = NoDocument
    /\ dObjects \in SUBSET DocObjects
    /\ dCache = NilCache
    /\ dRes = DocRes("NewCache", "")

\* os.IsNotExist that never recognises the missing file
isNotExist_Never(file) == FALSE

\* os.IsNotExist of the error of os.ReadFile
isNotExist(file) == file.state = "missing"

\* Load: the directory and BuildCache after the call and the error returned
LoadResult(dir, file, cache) ==
    IF dir = "blocked" THEN [dir |-> dir, cache |-> cache, err |-> "mkdir"]
    ELSE IF isNotExist(file)
         THEN [dir |-> "present", cache |-> BuildCacheOf(CurrentVersion, {}), err |-> ""]
    ELSE IF file.state # "document" /\ file.state # "malformed"
         THEN [dir |-> "present", cache |-> cache, err |-> "read"]
    ELSE IF file.state = "malformed"
         THEN [dir |-> "present", cache |-> ZeroBuildCache, err |-> "parse"]
    ELSE [dir |-> "present",
          cache |-> [BuildCacheOf(file.version, file.entries) EXCEPT !.EntriesNil = file.bare],
          err |-> ""]

Load ==
    LET r == LoadResult(dDir, dFile, dCache)
    IN  /\ dDir' = r.dir
        /\ dCache' = r.cache
        /\ dRes' = DocRes("Load", r.err)
        /\ UNCHANGED <<dFile, dObjects>>
        /\ DocStep

\* NewBuilder returned a builder: its Load succeeded
builderExists == ~dCache.nil /\ ~(dRes.op = "Load" /\ dRes.err # "") /\ dRes.err # "panic"

\* Save: the directory and the file after the call and the error returned
SaveResult(dir, file, cache, writeOk) ==
    IF dir = "blocked" THEN [dir |-> dir, file |-> file, err |-> "mkdir"]
    ELSE IF ~writeOk THEN [dir |-> "present", file |-> file, err |-> "write"]
    ELSE [dir |-> "present",
          file |-> [Document(cache.Version, cache.Entries) EXCEPT !.bare = cache.EntriesNil],
          err |-> ""]

Save(writeOk) ==
    /\ builderExists
    /\ LET r == SaveResult(dDir, dFile, dCache, writeOk)
       IN  /\ dDir' = r.dir
           /\ dFile' = r.file
           /\ dRes' = DocRes("Save", r.err)
    /\ UNCHANGED <<dObjects, dCache>>
    /\ DocStep

\* a compile task of a Build for the target has succeeded: the object is
\* written and UpdateEntry puts its entry
\* PutEntry assigns into Entries: an assignment into the nil map panics
compiledObject(target) ==
    /\ builderExists
    /\ dObjects' = dObjects \cup {ObjectOf(target)}
    /\ IF dCache.EntriesNil
       THEN /\ dRes' = DocRes("UpdateEntry", "panic")
            /\ UNCHANGED dCache
       ELSE /\ dCache' = [dCache EXCEPT !.Entries = @ \cup {ObjectOf(target)}]
            /\ dRes' = DocRes("UpdateEntry", "")
    /\ UNCHANGED <<dDir, dFile>>
    /\ DocStep

\* GetEntry reads the map, nil or not
GetEntry(path) ==
    /\ builderExists
    /\ dRes' = DocRes("GetEntry", "")
    /\ UNCHANGED <<dDir, dFile, dObjects, dCache>>
    /\ DocStep

\* RemoveEntry deletes from the map, nil or not
RemoveEntry(path) ==
    /\ builderExists
    /\ dCache' = [dCache EXCEPT !.Entries = @ \ {path}]
    /\ dRes' = DocRes("RemoveEntry", "")
    /\ UNCHANGED <<dDir, dFile, dObjects>>
    /\ DocStep

\* Cache.Clean: the entries whose file os.Stat finds are kept
CacheClean(entries, objects) == {path \in entries : path \in objects}

\* Builder.Clean for a target; the two os.RemoveAll calls and the write of
\* Save succeed or fail
Clean(target, removeOutputOk, removeCacheOk, writeOk) ==
    /\ builderExists
    /\ IF ~removeOutputOk
       THEN /\ dRes' = DocRes("Clean", "remove")
            /\ UNCHANGED <<dDir, dFile, dObjects, dCache>>
       ELSE LET objects == dObjects \ {ObjectOf(target)}
                removed == dDir = "present" /\ removeCacheOk
                dir == IF removed THEN "absent" ELSE dDir
                file == IF removed THEN NoDocument ELSE dFile
                cache == [dCache EXCEPT !.Entries = CacheClean(@, objects)]
                r == SaveResult(dir, file, cache, writeOk)
            IN  /\ dObjects' = objects
                /\ dCache' = cache
                /\ dDir' = r.dir
                /\ dFile' = r.file
                /\ dRes' = DocRes("Clean", "")
    /\ DocStep

DocNext ==
    \/ Load
    \/ \E writeOk \in BOOLEAN : Save(writeOk)
    \/ \E target \in DocTargets : compiledObject(target)
    \/ \E path \in DocObjects : GetEntry(path)
    \/ \E path \in DocObjects : RemoveEntry(path)
    \/ \E target \in DocTargets, removeOutputOk, removeCacheOk, writeOk \in BOOLEAN :
           Clean(target, removeOutputOk, removeCacheOk, writeOk)

(***************************************************************************)
(* The command of the compile, link and shared-library tasks               *)
(* (src/internal/builder/builder.go, src/internal/compiler).  Names are    *)
(* sequences of characters, so that strings.Contains and strings.ToLower   *)
(* are computed on them.  A source file is known by its extension.         *)
(***************************************************************************)
GCCName == <<"G", "C", "C">>

ClangName == <<"C", "l", "a", "n", "g">>

gcc == <<"g", "c", "c">>

clang == <<"c", "l", "a", "n", "g">>

gxx == <<"g", "+", "+">>

clangxx == <<"c", "l", "a", "n", "g", "+", "+">>

\* the compilers DetectCompilers registers, by what their GetName returns
RegisteredCompilers == {GCCName, ClangName}

\* strings.Contains: sub occurs in s, character for character
Contains(s, sub) == \E i \in 1..(Len(s) - Len(sub) + 1) : SubSeq(s, i, i + Len(sub) - 1) = sub

Extensions == {".c", ".cpp", ".cc", ".cxx", ".C"}

CppExtensions == {".cpp", ".cc", ".cxx", ".C"}

isCpp(ext) == ext = ".cpp" \/ ext = ".cc" \/ ext = ".cxx" \/ ext = ".C"

\* the first loop of scheduleCompilationTasks: over every matched source
hasCppFiles(sources) == \E i \in 1..Len(sources) : isCpp(sources[i].ext)

\* the command of a task: the compiler's name, replaced for C++
compilerCmd(name, cpp) ==
    IF cpp
    THEN IF Contains(name, clang) THEN clangxx
         ELSE IF Contains(name, gcc) THEN gxx
         ELSE name
    ELSE name

FrontTask(kind, ext, command) == [kind |-> kind, ext |-> ext, command |-> command]

SourceBatches ==
    UNION {[1..n -> [ext : Extensions, stale : BOOLEAN]] : n \in 1..MaxBatch}

\* a builder nobody asks for commands
FrontIdle ==
    /\ fCompiler = GCCName
    /\ fSources = <<>>
    /\ fOutputType = "executable"
    /\ fHasCppFiles = FALSE
    /\ fTasks = <<>>
    /\ fPc = "new"

\* NewBuilder with one of the registered compilers, and the sources matched
FrontInit ==
    /\ fCompiler \in RegisteredCompilers
    /\ fSources \in SourceBatches
    /\ fOutputType \in {"executable", "shared_lib"}
    /\ fHasCppFiles = FALSE
    /\ fTasks = <<>>
    /\ fPc = "new"

RECURSIVE compileTasksOf(_, _)
\* the decision loop of scheduleCompilationTasks: a task per stale source
compileTasksOf(name, sources) ==
    IF sources = <<>> THEN <<>>
    ELSE LET src == Head(sources)
             rest == compileTasksOf(name, Tail(sources))
         IN  IF src.stale
             THEN <<FrontTask("compile", src.ext, compilerCmd(name, isCpp(src.ext)))>> \o rest
             ELSE rest

\* scheduleCompilationTasks, as far as the commands go
chooseCompileCommands ==
    /\ fPc = "new"
    /\ fHasCppFiles' = hasCppFiles(fSources)
    /\ fTasks' = compileTasksOf(fCompiler, fSources)
    /\ fPc' = "compiled"
    /\ UNCHANGED <<fCompiler, fSources, fOutputType>>
    /\ FrontStep

\* scheduleLinkingTask
chooseLinkCommand ==
    /\ fPc = "compiled" /\ fOutputType = "executable"
    /\ fTasks' = Append(fTasks, FrontTask("link", "", compilerCmd(fCompiler, fHasCppFiles)))
    /\ fPc' = "scheduled"
    /\ UNCHANGED <<fCompiler, fSources, fOutputType, fHasCppFiles>>
    /\ FrontStep

\* scheduleSharedLibTask
chooseSharedLibCommand ==
    /\ fPc = "compiled" /\ fOutputType = "shared_lib"
    /\ fTasks' = Append(fTasks, FrontTask("shared_lib", "", compilerCmd(fCompiler, fHasCppFiles)))
    /\ fPc' = "scheduled"
    /\ UNCHANGED <<fCompiler, fSources, fOutputType, fHasCppFiles>>
    /\ FrontStep

FrontNext ==
    \/ chooseCompileCommands
    \/ chooseLinkCommand
    \/ chooseSharedLibCommand

(***************************************************************************)
(* The object file of a source file (Builder.getObjectFilePath,            *)
(* src/internal/builder/builder.go).  A path is absolute or not, has the   *)
(* components of its directory and a file name; a file name is a sequence  *)
(* of characters, so that filepath.Ext is computed on it.                  *)
(***************************************************************************)
Path(abs, dir, name) == [abs |-> abs, dir |-> dir, name |-> name]

\* the file names of the sources: a.c, a.cpp, b.c, a.b.c
FileNames ==
    {<<"a", ".", "c">>, <<"a", ".", "c", "p", "p">>, <<"b", ".", "c">>,
     <<"a", ".", "b", ".", "c">>}

\* the directories of the sources: the working directory and src
SourceDirs == {<<>>, <<"src">>}

SourcePaths == {Path(abs, dir, name) : abs \in BOOLEAN, dir \in SourceDirs, name \in FileNames}

\* filepath.Join(b.OutputDir, b.Target)
OutputDir == <<"build", "debug">>

\* Compiler.GetObjectExtension
ObjectExtension == <<".", "o">>

\* the position of the last dot of a name (0 when it has none)
LastDot(name) ==
    IF \E i \in 1..Len(name) : name[i] = "."
    THEN CHOOSE i \in 1..Len(name) : name[i] = "." /\ \A j \in (i + 1)..Len(name) : name[j] # "."
    ELSE 0

\* filepath.Ext: the suffix of the name from its last dot on
Ext(name) == IF LastDot(name) = 0 THEN <<>> ELSE SubSeq(name, LastDot(name), Len(name))

\* getObjectFilePath: the name without its extension, with the object
\* extension, under the output directory and the directory of the source
\* relative to "."; filepath.Rel fails for an absolute directory
getObjectFilePath(sourceFile, outputDir) ==
    LET baseName == sourceFile.name
        stem == SubSeq(baseName, 1, Len(baseName) - Len(Ext(baseName)))
    IN  IF sourceFile.abs
        THEN Path(FALSE, outputDir, stem \o ObjectExtension)
        ELSE Path(FALSE, outputDir \o sourceFile.dir, stem \o ObjectExtension)

\* the lists of distinct source files of a build
SourceLists ==
    {sources \in [1..MaxMatched -> SourcePaths] :
        \A i, j \in 1..MaxMatched : i # j => sources[i] # sources[j]}

\* a builder that was given no source
PathIdle ==
    /\ oSources = <<>>
    /\ oObjects = <<>>

PathInit ==
    /\ oSources \in SourceLists
    /\ oObjects = <<>>

\* one turn of the loop of scheduleCompilationTasks: the object file of the
\* next source is appended to objectFiles
appendObjectFile ==
    /\ Len(oObjects) < Len(oSources)
    /\ oObjects' = Append(oObjects, getObjectFilePath(oSources[Len(oObjects) + 1], OutputDir))
    /\ UNCHANGED oSources
    /\ PathStep

PathNext == appendObjectFile

(***************************************************************************)
(* The include scanner (src/internal/dependency/scanner.go).  A path is    *)
(* the sequence of its elements; the source is src/a, which Scan is given  *)
(* as "src/a" or as "./src/a", headers may exist as src/b and inc/b, and   *)
(* inc is the one include directory.  A file is a list of include lines,   *)
(* local ("name") or system (<name>).  scanRecursive is followed call by   *)
(* call: sStack holds, for each call in progress, its path and the line it *)
(* is about to read.                                                       *)
(***************************************************************************)
ScanSource == <<"src", "a">>

\* the files, each under its shortest path
ScanPaths == {ScanSource, <<"src", "b">>, <<"inc", "b">>}

\* the ways the caller writes the source file
ScanArguments == {ScanSource, <<".">> \o ScanSource}

\* DependencyScanner.includeDirs
includeDirs == <<<<"inc">>>>

\* filepath.Clean: a leading "." element is dropped
CleanPath(path) == IF Len(path) > 1 /\ path[1] = "." THEN Tail(path) ELSE path

\* filepath.Join(dir, name): the elements, cleaned
JoinPath(dir, name) == CleanPath(dir \o <<name>>)

\* filepath.Dir(path): all but the last element, cleaned
DirOf(path) == CleanPath(SubSeq(path, 1, Len(path) - 1))

Include(kind, name) == [kind |-> kind, name |-> name]

Includes == {Include(kind, name) : kind \in {"local", "system"}, name \in {"a", "b"}}

NoScanFile == [exists |-> FALSE, readable |-> FALSE, lines |-> <<>>]

\* a file os.Stat finds and os.Open refuses
UnreadableFile == [exists |-> TRUE, readable |-> FALSE, lines |-> <<>>]

ScanFile(lines) == [exists |-> TRUE, readable |-> TRUE, lines |-> lines]

ScanFiles ==
    {NoScanFile, UnreadableFile} \cup {ScanFile(lines) : lines \in SeqsUpTo(Includes, MaxIncludes)}

\* os.Stat(path) returns nil
statOk(files, path) == CleanPath(path) \in ScanPaths /\ files[CleanPath(path)].exists

RECURSIVE searchIncludeDirs(_, _, _)
\* the loop over includeDirs from position i on: the path of the name in
\* the first directory that has it, or <<>> when none has
searchIncludeDirs(files, name, i) ==
    IF i > Len(includeDirs) THEN <<>>
    ELSE IF statOk(files, JoinPath(includeDirs[i], name)) THEN JoinPath(includeDirs[i], name)
    ELSE searchIncludeDirs(files, name, i + 1)

\* the path an include line of a file in sourceDir resolves to, or <<>>
\* when the line is skipped
resolve(files, sourceDir, include) ==
    IF include.kind = "local" /\ statOk(files, JoinPath(sourceDir, include.name))
    THEN JoinPath(sourceDir, include.name)
    ELSE searchIncludeDirs(files, include.name, 1)

\* s.visitedFiles[sourceFile]: the map is keyed by the path as written
alreadyVisited(visited, file) == file \in visited

Frame(file, line) == [file |-> file, line |-> line]

\* the file the call at position i of the stack reads
FrameFile(i) == sFiles[CleanPath(sStack[i].file)]

\* a scanner nobody calls
ScanIdle ==
    /\ sFiles = [path \in ScanPaths |-> NoScanFile]
    /\ sStack = <<>>
    /\ sVisited = {}
    /\ sDeps = {}
    /\ sOpened = <<>>
    /\ sResult = <<>>
    /\ sPc = "idle"

\* NewDependencyScanner, with any files on disk; the source file exists
ScanInit ==
    /\ sFiles \in [ScanPaths -> ScanFiles]
    /\ sFiles[ScanSource].exists
    /\ sStack = <<>>
    /\ sVisited = {}
    /\ sDeps = {}
    /\ sOpened = <<>>
    /\ sResult = <<>>
    /\ sPc = "idle"

\* the call scanRecursive(file) made by Scan with the calls in stack in
\* progress: nothing for a visited path; otherwise the path is marked and
\* opened, and an error of os.Open is returned through every caller
callScanRecursive(visited, stack, file) ==
    IF alreadyVisited(visited, file)
    THEN /\ sStack' = stack
         /\ sVisited' = visited
         /\ sPc' = "scan"
         /\ UNCHANGED sOpened
    ELSE /\ sVisited' = visited \cup {file}
         /\ sOpened' = Append(sOpened, file)
         /\ IF sFiles[CleanPath(file)].readable
            THEN /\ sStack' = Append(stack, Frame(file, 1))
                 /\ sPc' = "scan"
            ELSE /\ sStack' = <<>>
                 /\ sPc' = "failed"

\* Scan(sourceFile): the two maps are made and the source is scanned
Scan ==
    /\ sPc = "idle"
    /\ \E sourceFile \in ScanArguments :
         callScanRecursive({}, <<>>, sourceFile)
    /\ sDeps' = {}
    /\ UNCHANGED <<sFiles, sResult>>
    /\ ScanStep

\* the innermost scanRecursive reads its next line
scanLine ==
    /\ sPc = "scan" /\ sStack # <<>>
    /\ LET top == sStack[Len(sStack)]
           lines == FrameFile(Len(sStack)).lines
       IN  /\ top.line <= Len(lines)
           /\ LET resolvedPath == resolve(sFiles, DirOf(top.file), lines[top.line])
                  stack == [sStack EXCEPT ![Len(sStack)] = Frame(top.file, top.line + 1)]
              IN  IF resolvedPath = <<>>
                  THEN /\ sStack' = stack
                       /\ UNCHANGED <<sVisited, sDeps, sOpened, sPc>>
                  ELSE /\ sDeps' = sDeps \cup {resolvedPath}
                       /\ callScanRecursive(sVisited, stack, resolvedPath)
    /\ UNCHANGED <<sFiles, sResult>>
    /\ ScanStep

\* the innermost scanRecursive has read its last line and returns nil
scanReturn ==
    /\ sPc = "scan" /\ Len(sStack) > 1
    /\ sStack[Len(sStack)].line > Len(FrameFile(Len(sStack)).lines)
    /\ sStack' = SubSeq(sStack, 1, Len(sStack) - 1)
    /\ UNCHANGED <<sFiles, sVisited, sDeps, sOpened, sResult, sPc>>
    /\ ScanStep

\* the outermost scanRecursive returns nil and Scan lists the keys of the
\* dependencies map, in the order in which the map is ranged over
scanResult ==
    /\ sPc = "scan" /\ Len(sStack) = 1
    /\ sStack[1].line > Len(FrameFile(1).lines)
    /\ sStack' = <<>>
    /\ \E order \in Perms(sDeps) : sResult' = order
    /\ sPc' = "done"
    /\ UNCHANGED <<sFiles, sVisited, sDeps, sOpened>>
    /\ ScanStep

ScanNext ==
    \/ Scan
    \/ scanLine
    \/ scanReturn
    \/ scanResult

(***************************************************************************)
(* Properties of the dependency graph.                                     *)
(***************************************************************************)
RECURSIVE ReachableFrom(_, _)
\* the nodes reached from the set S through zero or more dependency edges
ReachableFrom(deps, S) ==
    LET next == S \cup UNION {Range(deps[n]) : n \in S}
    IN  IF next = S THEN S ELSE ReachableFrom(deps, next)

\* from depends on to through one or more edges
DependsOn(deps, from, to) == to \in ReachableFrom(deps, Range(deps[from]))

\* the edge relation has no cycle
Acyclic(deps) == \A n \in NodeIds : ~DependsOn(deps, n, n)

\* the edge from -> to would close a cycle: to already depends on from, or is from
ClosesCycle(deps, from, to) == from = to \/ DependsOn(deps, to, from)

\* C1: after any sequence of AddNode and AddDependency calls, failed or not,
\* the edge relation is acyclic and hasCycle() answers false, in whatever
\* order it ranges over the nodes.
C1_GraphAcyclic ==
    /\ Acyclic(gDeps)
    /\ \A order \in Perms(gNodes) : ~hasCycle(gDeps, order)

\* an insertion that succeeded and filled the graph with a chain of edges
C1_Witness ==
    /\ gRes.op = "AddDependency" /\ gRes.err = ""
    /\ EdgeCount(gDeps) = MaxEdges
    /\ \E a, b, c \in gNodes : a # b /\ b # c /\ b \in Range(gDeps[a]) /\ c \in Range(gDeps[b])

\* C2: AddDependency(from, to) between two existing nodes whose edge would
\* close a cycle (from = to included) returns the "would create a cycle"
\* error and leaves every dependency list as it was, in content and order.
C2_CycleRejectedUnchanged ==
    [][\A from, to \in NodeIds :
          (from \in gNodes /\ to \in gNodes /\ ClosesCycle(gDeps, from, to) /\ AddDependency(from, to))
              => (gRes'.err = "cycle" /\ gDeps' = gDeps)]_vars

\* a rejected insertion in a graph where some node has two dependencies
C2_Witness ==
    /\ gRes.op = "AddDependency" /\ gRes.err = "cycle"
    /\ \E n \in gNodes : Len(gDeps[n]) = 2

\* no dependency list names the same target twice
NoDuplicateDependency == \A n \in NodeIds : Cardinality(Range(gDeps[n])) = Len(gDeps[n])

\* C27: AddDependency(from, to) on an edge already present returns nil and
\* changes nothing, and no dependency list ever holds the same target twice.
C27_AddDependencyIdempotent ==
    /\ [](NoDuplicateDependency)
    /\ [][\A from, to \in NodeIds :
             (from \in gNodes /\ to \in Range(gDeps[from]) /\ AddDependency(from, to))
                 => (gRes'.err = "" /\ UNCHANGED <<gNodes, gType, gDeps, gEntry>>)]_vars

\* the second of two accepted AddDependency calls for one edge, in a graph
\* whose source node has another dependency as well
C27_Witness ==
    /\ gRes.op = "AddDependency" /\ gRes.err = "" /\ gRes.already
    /\ \E n \in gNodes : Len(gDeps[n]) = 2
    /\ gNodes = NodeIds

\* C28: AddNode with an identifier already present returns the "node already
\* exists" error and leaves the stored node (its type, its dependency list)
\* and the rest of the graph as they were; AddNode returns nil only for an
\* identifier that was absent.
C28_DuplicateNodeRejected ==
    [][/\ \A id \in NodeIds, type \in NodeTypes :
             (id \in gNodes /\ AddNode(id, type))
                 => (gRes'.err = "exists" /\ UNCHANGED <<gNodes, gType, gDeps, gEntry>>)
       /\ (gRes'.op = "AddNode" /\ gRes'.err = "exists")
             => UNCHANGED <<gNodes, gType, gDeps, gEntry>>
       /\ (gRes'.op = "AddNode" /\ gRes'.err = "")
             => (gRes = gRes' \/ gNodes' # gNodes)]_vars

\* a rejected AddNode in a graph with nodes of both types and an edge
C28_Witness ==
    /\ gRes.op = "AddNode" /\ gRes.err = "exists"
    /\ {gType[n] : n \in gNodes} = NodeTypes
    /\ EdgeCount(gDeps) >= 1

\* C3: the list TopologicalSort returns for an acyclic graph has, for every
\* edge from -> to, to at an earlier index than from.
C3_DependenciesFirst ==
    (gRes.op = "TopologicalSort" /\ gRes.err = "")
        => \A from \in gNodes : \A to \in Range(gDeps[from]) :
              /\ IndexOf(gRes.out, to) > 0
              /\ IndexOf(gRes.out, to) < IndexOf(gRes.out, from)

(***************************************************************************)
(* Properties of the build cache.                                          *)
(***************************************************************************)
\* C34: the list TopologicalSort returns for an acyclic graph holds every
\* node of the graph exactly once, marked entry points or not.
C34_SortListsEveryNodeOnce ==
    (gRes.op = "TopologicalSort" /\ gRes.err = "")
        => /\ Range(gRes.out) = gNodes
           /\ Len(gRes.out) = Cardinality(gNodes)

\* a sort of three nodes with two edges, one entry point marked and a node
\* that no entry point reaches
C34_Witness ==
    /\ gRes.op = "TopologicalSort" /\ gRes.err = ""
    /\ gNodes = NodeIds /\ EdgeCount(gDeps) >= 2
    /\ Len(gEntry) = 1
    /\ \E n \in gNodes : n # gEntry[1] /\ ~DependsOn(gDeps, gEntry[1], n)

\* C35: GetDependents(id) returns the nodes with an edge to id, and
\* GetDependentsRecursive(id) the nodes from which id is reached through one
\* or more edges, each node once.
C35_DependentsListedOnce ==
    /\ gRes.op = "GetDependents"
          => /\ Range(gRes.out) = {n \in gNodes : gRes.id \in Range(gDeps[n])}
             /\ Len(gRes.out) = Cardinality(Range(gRes.out))
    /\ gRes.op = "GetDependentsRecursive"
          => /\ Range(gRes.out) = {n \in gNodes : DependsOn(gDeps, n, gRes.id)}
             /\ Len(gRes.out) = Cardinality(Range(gRes.out))

\* C4: a successful UpdateEntry(path, deps, commandHash) followed at once by
\* NeedsRebuild(path, deps, commandHash), every dependency being an existing
\* file, returns false.
C4_RoundTrip ==
    [][(/\ cRes.op = "UpdateEntry" /\ ~cRes.err
        /\ cRes'.op = "NeedsRebuild"
        /\ cRes'.path = cRes.path /\ cRes'.deps = cRes.deps /\ cRes'.cmd = cRes.cmd
        /\ \A d \in Range(cRes.deps) : cFS[d].exists)
            => ~cRes'.rebuild]_vars

\* C6: when an entry exists for the artifact and a file of the dependency
\* list passed to NeedsRebuild has changed (content or modification time)
\* since that entry was recorded, NeedsRebuild on the artifact returns true.
C6_DependencyChangeInvalidates ==
    (/\ cRes.op = "NeedsRebuild" /\ cRes.path = Artifact
     /\ cEntries[Artifact].present
     /\ Dependency \in Range(cRes.deps)
     /\ cFS[Dependency] # cSnap)
        => cRes.rebuild

\* C7: NeedsRebuild right after a successful UpdateEntry, same path and
\* dependencies, with the hash of a command line that differs in its compiler
\* name or its flag list, returns true.
C7_CommandChangeInvalidates ==
    [][(/\ cRes.op = "UpdateEntry" /\ ~cRes.err
        /\ cRes'.op = "NeedsRebuild"
        /\ cRes'.path = cRes.path /\ cRes'.deps = cRes.deps
        /\ cRes'.cmd # cRes.cmd)
            => cRes'.rebuild]_vars

\* the entry of a path matches the file and the command hash: the entry
\* exists, the file can be examined, and its modification time, its content
\* hash and the command hash are the recorded ones
EntryMatches(path, commandHash) ==
    /\ cEntries[path].present
    /\ cFS[path].exists /\ cFS[path].fault = ""
    /\ cFS[path].mtime = cEntries[path].Timestamp
    /\ cFS[path].content = cEntries[path].Hash
    /\ commandHash = cEntries[path].CommandHash

\* C36: Cache.Clean removes the entries whose file does not exist and only
\* those, leaves every other entry as it was, and leaves every file as it
\* was.
C36_CleanRemovesMissingOnly ==
    [][cRes'.op = "Clean" =>
          /\ cFS' = cFS
          /\ \A path \in CachePaths :
                 /\ cFS[path].exists => cEntries'[path] = cEntries[path]
                 /\ ~cFS[path].exists => ~cEntries'[path].present
                 /\ cEntries'[path] # cEntries[path] => path \in cRes'.removed]_vars

\* Clean has removed the entry of the missing dependency file and kept the
\* entry of the artifact, whose file is there and cannot be examined
C36_Witness ==
    /\ cRes.op = "Clean" /\ cRes.removed = {Dependency}
    /\ ~cFS[Dependency].exists /\ ~cEntries[Dependency].present
    /\ cFS[Artifact].fault = "stat" /\ cEntries[Artifact].present

\* C30: NeedsRebuild(path, deps, h) returns false only when an entry exists
\* for path, the file exists, its modification time and its content hash are
\* the entry's, h is the entry's command hash, and every dependency exists,
\* does not itself need a rebuild and is not newer than the entry's
\* timestamp; whenever it returns an error it returns true.
C30_FalseOnlyWhenAllFresh ==
    cRes.op = "NeedsRebuild" =>
        /\ cRes.err => cRes.rebuild
        /\ ~cRes.rebuild =>
              /\ EntryMatches(cRes.path, CommandHashOf(cRes.cmd))
              /\ \A d \in Range(cRes.deps) :
                     /\ cFS[d].exists /\ cFS[d].fault # "stat"
                     /\ EntryMatches(d, "")
                     /\ cFS[d].mtime <= cEntries[cRes.path].Timestamp

\* NeedsRebuild has returned false for an artifact with a dependency
C30_Witness ==
    /\ cRes.op = "NeedsRebuild" /\ ~cRes.rebuild
    /\ cRes.path = Artifact /\ cRes.deps = <<Dependency>>

(***************************************************************************)
(* Properties of the executor.                                             *)
(***************************************************************************)
\* C8, as stated: a task whose command has been started, or whose completion
\* signal has fired, has every task of its Dependencies already executed
\* successfully; so a task with a dependency that is never submitted is
\* never executed.
C8_DependenciesExecuted ==
    \A t \in Executed \cup eSignalled :
        \A d \in Range(eTask[t].Dependencies) : d \in Succeeded

\* C8, amended: the completed-set holds the IDs of the tasks that executed
\* successfully, and a task whose command has been started, or whose
\* completion signal has fired, has the ID of every task of its Dependencies
\* in that set: some task with that ID, the dependency or another, has
\* executed successfully.
C8_DependencyIDsCompleted ==
    /\ eCompleted = {eTask[u].ID : u \in Succeeded}
    /\ \A t \in Executed \cup eSignalled :
          \A d \in Range(eTask[t].Dependencies) : eTask[d].ID \in eCompleted

\* a task with a dependency has its command running while another task,
\* whose dependency has not completed, has been put back and waits
C8_Witness ==
    /\ \E w \in DOMAIN eWorker :
          eWorker[w].pc = "run" /\ eTask[eWorker[w].task].Dependencies # <<>>
    /\ \E w \in DOMAIN eWorker :
          eWorker[w].pc = "requeue" /\ ~canExecute(eCompleted, DependencyIDs(eWorker[w].task))

\* C9: at every instant at most WorkerCount commands are executing.
C9_AtMostWorkerCountRunning ==
    Cardinality({w \in DOMAIN eWorker : eWorker[w].pc = "run"}) <= eWorkerCount

\* the largest pool is saturated: each worker has a command running, and a
\* task waits in the queue
C9_Witness ==
    /\ eWorkerCount = MaxWorkers
    /\ Cardinality({w \in DOMAIN eWorker : eWorker[w].pc = "run"}) = MaxWorkers
    /\ eQueue # <<>>

\* the list WaitForAll returned holds exactly one Result per submitted task
OneResultPerTask ==
    /\ Len(eOut) = Len(ePlan)
    /\ \A t \in Range(ePlan) : Cardinality({i \in 1..Len(eOut) : eOut[i].Task = t}) = 1

\* the number of Results published for a task, read or not
ResultsFor(t) ==
    Cardinality({i \in 1..Len(eResults) : eResults[i].Task = t})
        + Cardinality({i \in 1..Len(eOut) : eOut[i].Task = t})

\* C11: a task that was executed has its completion signalled and exactly
\* one Result published for it: again and again, every task whose completion
\* channel is closed has exactly one Result on the results stream.
C11_OneResultPerExecution ==
    []<>(\A t \in eSignalled : ResultsFor(t) = 1)

\* C12: an ID enters the completed-set only in the step in which the command
\* of a task with that ID returns without error, a command that fails adds
\* nothing, and no ID ever leaves the set.
C12_CompletedOnlyOnSuccess ==
    [][/\ eCompleted \subseteq eCompleted'
       /\ \A id \in eCompleted' \ eCompleted :
             \E w \in DOMAIN eWorker :
                /\ eWorker[w].pc = "run" /\ eTask[eWorker[w].task].ID = id
                /\ eWorker'[w].pc = "send" /\ eWorker'[w].success]_vars

\* a command has failed, its task's ID is not in the completed-set, and the
\* ID of a task that succeeded before is still there
C12_Witness ==
    /\ \E w \in DOMAIN eWorker :
          /\ eWorker[w].pc = "send" /\ ~eWorker[w].success
          /\ eTask[eWorker[w].task].ID \notin eCompleted
    /\ eCompleted # {}

\* the tasks the caller has submitted
Submitted == {ePlan[i] : i \in 1..ePos}

\* C13: a submitted task all of whose dependencies have been submitted and
\* have completed successfully, the pool still running, is eventually
\* executed and signalled: again and again, every such task has been.
C13_ReadyTaskEventuallyRuns ==
    []<>(\A t \in Submitted :
            (\A d \in Range(eTask[t].Dependencies) : d \in Submitted \cap Succeeded)
                => t \in eSignalled)

\* C14: requeueing a task and publishing a Result never block a worker for
\* ever: again and again, no worker is in either send.
C14_WorkersNeverStuckInSend ==
    []<>(\A w \in DOMAIN eWorker : eWorker[w].pc \notin {"requeue", "send"})

\* C15: Shutdown does not fault, and when it has returned every task that
\* was queued or in flight at the call has been executed and signalled, every
\* worker has exited and the queue is empty (stated for callers that have
\* submitted the dependencies of every task they submitted).
C15_ShutdownDrains ==
    (\A t \in Submitted : Range(eTask[t].Dependencies) \subseteq Submitted)
        => /\ eCaller = "stopping" => ~Crashed
           /\ eCaller = "stopped" =>
                 /\ Submitted \subseteq eSignalled
                 /\ eQueue = <<>>
                 /\ \A w \in DOMAIN eWorker : eWorker[w].pc = "returned"

\* C16: once the context is cancelled no worker receives a task from the
\* queue any more.
C16_NoDequeueAfterCancel ==
    [][Cancelled =>
          \A w \in DOMAIN eWorker \cap DOMAIN eWorker' :
              ~(eWorker[w].pc = "select" /\ eWorker'[w].pc = "check")]_vars

\* C10: once the caller of a started executor has submitted its tasks, none
\* with a dependency, and called WaitForAll, WaitForAll eventually returns,
\* and with exactly one Result per submitted task.
C10_WaitForAllReturns ==
    (eCaller = "wait") ~> (eCaller = "returned" /\ OneResultPerTask)


(***************************************************************************)
(* Properties of the build orchestrator.                                   *)
(***************************************************************************)
\* C5: a Build that follows a Build in which every compilation succeeded and
\* the cache was saved, with no source, header or flag changed in between,
\* creates no compile task.
C5_SecondBuildCompilesNothing ==
    (bBuild.op = "Build" /\ bBuild.unchanged) => bBuild.tasks = {}


\* the tasks Build created for its pre-build commands
PreBuildTasks == {t \in DOMAIN eTask : eTask[t].ID \in {"pre-build-true", "pre-build-false"}}

\* the tasks Build created for its post-build commands
PostBuildTasks == {t \in DOMAIN eTask : eTask[t].ID \in {"post-build-true", "post-build-false"}}

\* the compile tasks Build created
CompileTasks == {t \in DOMAIN eTask : \E i \in 1..MaxMatched : eTask[t].ID = SourceFile(i)}

\* the tasks whose command has returned with an error
Failed == eSignalled \ Succeeded

\* the position of a phase in the order of the phases
Rank(phase) == CHOOSE i \in 1..Len(Phases) : Phases[i] = phase

\* Build has executed a return statement with an error
ReturnsError == pErr \notin {"", "nil"}

\* the commands of a list that are not blank lines, in declared order
Declared(cmds) == SelectSeq(cmds, LAMBDA c : Fields(c) # <<>>)

\* the tasks of a command list were submitted in declared order, each after
\* the one before it had been signalled as successful; after a failed one
\* no task at all was created, Build is still in the phase of the list, and
\* it does not return nil
InOrder(tasks, cmds, prefix, phase) ==
    /\ Cardinality(tasks) <= Len(Declared(cmds))
    /\ \A t \in tasks :
          /\ eTask[t].ID = prefix \o Declared(cmds)[Cardinality({u \in tasks : u <= t})]
          /\ \A u \in tasks : u < t => u \in eSignalled \cap Succeeded
          /\ t \in Failed =>
                /\ t = Len(eTask)
                /\ pPhase = phase
                /\ pPc \in {"wait", "shutdown", "returned"}
                /\ pPc # "wait" => ReturnsError

\* C17: the pre-build and the post-build commands run strictly in declared
\* order: command i+1 is not submitted until the completion of command i has
\* been signalled, and when a command fails no later command is submitted
\* and Build returns an error without entering a later phase.
C17_CommandsInDeclaredOrder ==
    /\ InOrder(PreBuildTasks, pConfig.pre, "pre-build-", "pre-build")
    /\ InOrder(PostBuildTasks, pConfig.post, "post-build-", "post-build")

\* Build has returned the error of its second post-build command, which it
\* submitted after the first one had succeeded
C17_Witness ==
    /\ pPc = "returned"
    /\ pErr = "post-build commands failed"
    /\ Cardinality(PostBuildTasks) = 2
    /\ Cardinality(PostBuildTasks \cap Failed) = 1

\* C18: a Build whose pre-build commands all exit with status 0, and that
\* has at least one, eventually has every one of them executed and goes on
\* from the pre-build phase to source discovery.
C18_PreBuildCommandsRun ==
    (/\ pPhase = "pre-build" /\ pPc = "run" /\ pIdx = 1
     /\ pConfig.pre # <<>>
     /\ \A i \in 1..Len(pConfig.pre) : pConfig.pre[i] = "true")
        ~> (/\ Rank(pPhase) >= Rank("discovery")
            /\ Cardinality(PreBuildTasks \cap Succeeded) = Len(pConfig.pre))

\* the phases are entered in their order, none is skipped, and once Build
\* has executed a return statement no later phase starts, no further task
\* is submitted and the cache is not saved
PhasesInOrder ==
    /\ Rank(pPhase') \in {Rank(pPhase), Rank(pPhase) + 1}
    /\ pErr # "" => UNCHANGED <<pPhase, eTask, ePos, pSaved>>

\* a failed task, or an empty match of the source patterns, makes Build
\* return an error, and a Build that returns an error has not saved the cache
FailureReturnsError ==
    /\ (pPc = "returned" /\ Failed # {}) => ReturnsError
    /\ pConfig.sources = <<>> => Rank(pPhase) <= Rank("discovery")
    /\ (pPc = "returned" /\ pConfig.sources = <<>>) => ReturnsError
    /\ ReturnsError => pSaved = "none"

\* C19, as stated: Build runs its phases in the fixed order, and when a
\* phase fails, the persist phase included, Build returns an error and no
\* later phase starts: no further task is submitted and the cache is not
\* saved.
C19_FailedPhaseAborts ==
    /\ [](FailureReturnsError /\ (pSaved = "failed" => ReturnsError))
    /\ [][PhasesInOrder]_vars

\* C19, amended: the same for every phase but persist; a Cache.Save that
\* fails is the last step of Build, which returns nil.
C19_FailedPhaseAbortsBeforePersist ==
    /\ [](FailureReturnsError /\ (pSaved # "none" => pErr = "nil"))
    /\ [][PhasesInOrder]_vars

\* the link task has failed and Build has returned its error: the
\* configured post-build commands were not submitted and the cache was not
\* saved
C19_Witness ==
    /\ pPc = "returned"
    /\ pErr = "failed to link object files"
    /\ CompileTasks # {}
    /\ pConfig.post # <<>> /\ PostBuildTasks = {}
    /\ pSaved = "none"

\* the loop that waits for the compile tasks is over
CompilationOver ==
    \/ Rank(pPhase) > Rank("compile")
    \/ pPhase = "compile" /\ pPc \in {"shutdown", "returned"}
    \/ pPhase = "compile" /\ pPc = "wait" /\ pIdx > Len(staleSources(pConfig.sources))

\* the source files whose compilation fails, in order
BadSources ==
    SelectSeq([i \in 1..Len(pConfig.sources) |-> SourceFile(i)],
              LAMBDA f : \E i \in 1..Len(pConfig.sources) :
                            f = SourceFile(i) /\ pConfig.sources[i] = "bad")

\* C20: when compile tasks fail Build still waits for every compile task it
\* submitted, then returns an error with one message per failed compilation,
\* and starts no link, archive or post-build step.
C20_EveryCompileFailureReported ==
    /\ CompilationOver =>
          /\ Cardinality(CompileTasks) = Len(staleSources(pConfig.sources))
          /\ CompileTasks \subseteq eSignalled
          /\ pErrors = BadSources
    /\ Len(pErrors) > 0 =>
          /\ pPhase = "compile"
          /\ DOMAIN eTask = PreBuildTasks \cup CompileTasks
          /\ pPc = "returned" => pErr = "failed to compile source files"

\* two compilations have failed, Build has waited for both, and has returned
\* the compilation error with both messages without running its post-build
\* commands
C20_Witness ==
    /\ pPc = "returned"
    /\ Len(pErrors) = 2
    /\ CompileTasks \subseteq Failed
    /\ pConfig.post # <<>>

\* the link or shared-library tasks Build created
ArtifactTasks == {t \in DOMAIN eTask : eTask[t].ID \in {"link", "shared_lib"}}

\* C21: the link or shared-library task is submitted, and the archiver is
\* invoked, only after every compile task of this Build has signalled its
\* completion, and only if every one of them succeeded.
C21_ArtifactAfterCompilation ==
    (ArtifactTasks # {} \/ Rank(pPhase) >= Rank("artifact"))
        => /\ Cardinality(CompileTasks) = Len(staleSources(pConfig.sources))
           /\ CompileTasks \subseteq eSignalled \cap Succeeded
           /\ \A t \in ArtifactTasks : \A c \in CompileTasks : c < t

\* the link task has been submitted after two compile tasks, which both
\* succeeded
C21_Witness ==
    /\ \E t \in ArtifactTasks : eTask[t].ID = "link"
    /\ Cardinality(CompileTasks) = 2
    /\ pPhase = "artifact" /\ pPc = "wait"

\* C22: in a run of Build, a source file whose object's freshness check by
\* the cache ends in an error gets a compile task: the file is not skipped
\* and the run is not aborted.
C22_FailedCheckMeansRebuild ==
    [][bBuild' # bBuild =>
          \A s \in Sources :
              NeedsRebuildResult(cEntries, cFS, Object(s), dependenciesOf(bIncludes, s),
                                 CalculateCommandHash(bCommand.command, bCommand.args)).err
                  => s \in bBuild'.tasks /\ bBuild'.err # "panic"]_vars

\* Cache.Save has been called only in the persist phase of a Build in which
\* no task failed and every post-build command succeeded; a Build that
\* returns nil has called it and one that returns an error has not
SavedOnlyAtTheEnd ==
    /\ (pSaved # "none") =>
          /\ pPhase = "persist" /\ pErr = "nil"
          /\ Failed = {}
          /\ Cardinality(PostBuildTasks \cap Succeeded) = Len(Declared(pConfig.post))
    /\ (pErr = "nil") => (pSaved # "none")
    /\ ReturnsError => (pSaved = "none")

\* C24: Build calls Cache.Save once, after every post-build command has
\* succeeded, and never in a Build that failed before; a Build that returns
\* nil has called it, and when that Save fails Build still returns nil.
C24_SavedOnceAtTheEnd ==
    /\ [](SavedOnlyAtTheEnd)
    /\ [][pSaved # "none" => pSaved' = pSaved]_vars

\* Build has returned nil after two post-build commands although Cache.Save
\* failed
C24_Witness ==
    /\ pPc = "returned" /\ pErr = "nil"
    /\ pSaved = "failed"
    /\ Cardinality(PostBuildTasks) = 2

\* C23: after Builder.Clean returned nil the cache holds no entry in memory,
\* and the document on disk, if there is one, holds none, whatever the cache
\* held before.
C23_CleanEmptiesCache ==
    (dRes.op = "Clean" /\ dRes.err = "")
        => /\ dCache.Entries = {}
           /\ dFile.state = "document" => dFile.entries = {}

\* C25: Load of a document whose version is not "1.0" returns nil and leaves
\* the cache with no entry.
C25_OtherVersionLoadsEmpty ==
    (dRes.op = "Load" /\ dFile.state = "document" /\ dFile.version # CurrentVersion)
        => (dRes.err = "" /\ ~dCache.nil /\ dCache.Entries = {})

\* C37: the object files of the distinct sources of one build are distinct.
C37_DistinctObjectFiles ==
    \A i, j \in 1..Len(oObjects) : i # j => oObjects[i] # oObjects[j]

\* C32: whatever the configuration, when every command terminates Build
\* eventually returns, its deferred Shutdown included.
C32_BuildReturns == <>(pPc = "returned")

\* how many times a task is pending in the queue
Pending(task) == Cardinality({i \in DOMAIN eQueue : eQueue[i] = task})

\* how many running workers hold a task, from the receive to the send of
\* the result
Held(task) ==
    Cardinality({w \in DOMAIN eWorker :
                    /\ eWorker[w].task = task
                    /\ eWorker[w].pc \in {"check", "requeue", "run", "norun", "send"}})

\* how many results of a task have been published
Finished(task) ==
    Cardinality({i \in DOMAIN eResults : eResults[i].Task = task})
        + Cardinality({i \in DOMAIN eOut : eOut[i].Task = task})

\* C33: every submitted task is at every instant in exactly one place:
\* pending in the queue, held by one worker, or finished; so none is lost
\* by a requeue and none is run twice.
C33_TaskInExactlyOnePlace ==
    \A task \in Submitted : Pending(task) + Held(task) + Finished(task) = 1

\* C40: WaitForTask on a submitted task returns only once the completion
\* signal of the task has fired, and its Result reports Success exactly when
\* the command of the task returned without error.
C40_WaitForTaskReportsOutcome ==
    (wResult.op = "WaitForTask" /\ ~wResult.nil)
        => /\ wResult.Task \in eSignalled
           /\ wResult.Success <=> wResult.Task \in Succeeded

\* WaitForTask has returned for a task whose command failed while the
\* command of another task succeeded
C40_Witness ==
    /\ wResult.op = "WaitForTask" /\ ~wResult.nil
    /\ ~wResult.Success
    /\ wResult.Task \in Executed
    /\ Succeeded # {}

\* the step is a compilation phase
CompileRan == bBuild'.op = "Compile" /\ (bBuild.op = "Compile" => bBuild'.calls # bBuild.calls)

\* the entry UpdateEntry stores for an object file as it is after the phase
FreshEntry(s) ==
    CacheEntry(CalculateFileHash(cFS', Object(s)), cFS'[Object(s)].mtime,
               CalculateCommandHash(bCommand.command, bCommand.args))

\* C31: the compilation phase replaces the cache entry of an object exactly
\* when its compile task succeeded, and leaves every other entry as it was.
C31_EntryReplacedIffSucceeded ==
    [][CompileRan =>
        \A s \in Sources :
            IF s \in bBuild'.ok
            THEN cEntries'[Object(s)] = FreshEntry(s)
            ELSE cEntries'[Object(s)] = cEntries[Object(s)]]_vars

\* C31, amended: the entry is replaced exactly when the task succeeded and
\* the object file can afterwards be examined and read; otherwise the entry
\* is left as it was.
C31_EntryReplacedIffSucceededAndReadable ==
    [][CompileRan =>
        \A s \in Sources :
            IF /\ s \in bBuild'.ok
               /\ ~StatFails(cFS', Object(s))
               /\ ~OpenFails(cFS', Object(s))
            THEN cEntries'[Object(s)] = FreshEntry(s)
            ELSE cEntries'[Object(s)] = cEntries[Object(s)]]_vars

\* a second phase has run in which a task succeeded whose object file can
\* be read, and the entry of that object carries the time of the file
C31_Witness ==
    /\ bBuild.op = "Compile" /\ bBuild.calls = 1
    /\ \E s \in bBuild.ok :
         /\ ~StatFails(cFS, Object(s)) /\ ~OpenFails(cFS, Object(s))
         /\ cEntries[Object(s)].present
         /\ cEntries[Object(s)].Timestamp = cFS[Object(s)].mtime
         /\ cFS[Object(s)].mtime = MaxClock

\* no file is opened twice, and the list returned names each dependency once
ScanOpensAndListsOnce ==
    /\ \A i, j \in 1..Len(sOpened) :
         i # j => CleanPath(sOpened[i]) # CleanPath(sOpened[j])
    /\ sPc = "done" => (Len(sResult) = Cardinality(sDeps) /\ Range(sResult) = sDeps)

\* C39: Scan returns whatever the files include, themselves or each other
\* included; it opens no file twice and returns no path twice.
C39_ScanTerminates ==
    /\ [](ScanOpensAndListsOnce)
    /\ <>(sPc \in {"done", "failed"})

\* C38: after a Load that returned nil, whatever document was on disk, no
\* later UpdateEntry, PutEntry, GetEntry, RemoveEntry or Clean panics.
C38_NoFaultAfterLoad == dRes.err # "panic"

\* C26, as stated: Load of a missing cache file returns nil and leaves a
\* cache of version "1.0" with no entry, and Load returns an error only for
\* a file that exists and cannot be read or parsed.
C26_LoadFailsOnlyOnBadFile ==
    dRes.op = "Load" =>
        /\ dFile.state = "missing"
              => (dRes.err = "" /\ dCache = BuildCacheOf(CurrentVersion, {}))
        /\ dRes.err # "" => dFile.state \in {"unreadable", "malformed"}

\* C26: Load of a missing cache file whose directory is there or can be
\* created returns nil and leaves a cache of version "1.0" with no entry,
\* and Load returns an error only when that directory cannot be created or
\* the file exists and cannot be read or parsed.
C26_LoadFailsOnlyOnBadFileOrDirectory ==
    dRes.op = "Load" =>
        /\ (dFile.state = "missing" /\ dDir # "blocked")
              => (dRes.err = "" /\ dCache = BuildCacheOf(CurrentVersion, {}))
        /\ dRes.err # "" => (dDir = "blocked" \/ dFile.state \in {"unreadable", "malformed"})

\* Load has made the directory and an empty cache for a file that is missing
C26_Witness ==
    /\ dRes = DocRes("Load", "")
    /\ dFile = NoDocument /\ dDir = "present"
    /\ dCache = BuildCacheOf(CurrentVersion, {})
    /\ dObjects # {}

\* C29: with the GCC or the Clang compiler, the command of a compile task
\* for a C++ source (.cpp, .cc, .cxx, .C) is g++ or clang++, and so is the
\* command of the link or shared-library task when any matched source is a
\* C++ source.
C29_CppFrontEnd ==
    \A i \in 1..Len(fTasks) :
        LET task == fTasks[i]
            cpp == IF task.kind = "compile" THEN task.ext \in CppExtensions
                   ELSE \E j \in 1..Len(fSources) : fSources[j].ext \in CppExtensions
        IN  cpp => task.command \in {gxx, clangxx}

(***************************************************************************)
(* The specifications.                                                     *)
(***************************************************************************)
\* a builder nobody uses
BuildIdle ==
    /\ bNow = 1
    /\ bCommand = NoCommand
    /\ bIncludes = <<>>
    /\ bBuild = BuildRes("NewBuilder", {}, "", FALSE)
    /\ bClean = FALSE

GraphSpecInit == GraphInit /\ CacheInit /\ ExecIdle /\ BuildIdle /\ PhaseIdle /\ DocIdle /\ FrontIdle /\ PathIdle /\ ScanIdle /\ WaitIdle

CacheSpecInit == CacheInit /\ GraphInit /\ ExecIdle /\ BuildIdle /\ PhaseIdle /\ DocIdle /\ FrontIdle /\ PathIdle /\ ScanIdle /\ WaitIdle

CommandHashSpecInit == CommandHashInit /\ GraphInit /\ ExecIdle /\ BuildIdle /\ PhaseIdle /\ DocIdle /\ FrontIdle /\ PathIdle /\ ScanIdle /\ WaitIdle

ExecSpecInit == ExecInit /\ GraphInit /\ CacheInit /\ BuildIdle /\ PhaseIdle /\ DocIdle /\ FrontIdle /\ PathIdle /\ ScanIdle /\ WaitIdle

ExecManySpecInit == ExecManyInit /\ GraphInit /\ CacheInit /\ BuildIdle /\ PhaseIdle /\ DocIdle /\ FrontIdle /\ PathIdle /\ ScanIdle /\ WaitIdle

BuildSpecInit == BuildInit /\ GraphInit /\ ExecIdle /\ PhaseIdle /\ DocIdle /\ FrontIdle /\ PathIdle /\ ScanIdle /\ WaitIdle

ExecRetrySpecInit == ExecRetryInit /\ GraphInit /\ CacheInit /\ BuildIdle /\ PhaseIdle /\ DocIdle /\ FrontIdle /\ PathIdle /\ ScanIdle /\ WaitIdle

GraphSpec == GraphSpecInit /\ [][GraphNext]_vars

GraphSortSpec == GraphSpecInit /\ [][GraphSortNext]_vars

CacheSpec == CacheSpecInit /\ [][CacheNext]_vars

CacheFaultSpecInit == CacheFaultInit /\ GraphInit /\ ExecIdle /\ BuildIdle /\ PhaseIdle /\ DocIdle /\ FrontIdle /\ PathIdle /\ ScanIdle /\ WaitIdle

CacheFaultSpec == CacheFaultSpecInit /\ [][CacheFaultNext]_vars

CommandHashSpec == CommandHashSpecInit /\ [][CommandHashNext]_vars

ExecSpec == ExecSpecInit /\ [][ExecNext]_vars

ExecStopSpec == ExecSpecInit /\ [][ExecStopNext]_vars

ExecWaitSpec == ExecSpecInit /\ [][ExecWaitNext]_vars

\* the scheduler lets the caller and the workers each take the steps they can
ExecRetrySpec ==
    ExecRetrySpecInit /\ [][ExecRetryNext]_vars
        /\ WF_vars(ExecRetryCaller) /\ WF_vars(ExecRetryWorkers)

BuildSpec == BuildSpecInit /\ [][BuildNext]_vars

BuildFaultSpec == BuildSpecInit /\ [][BuildFaultNext]_vars

CompileSpec == BuildSpecInit /\ [][CompileNext]_vars

PhaseSpecInit == PhaseInit /\ GraphInit /\ CacheInit /\ BuildIdle /\ DocIdle /\ FrontIdle /\ PathIdle /\ ScanIdle /\ WaitIdle

PhaseSpec == PhaseSpecInit /\ [][PhaseNext]_vars

\* the scheduler lets Build and the workers each take the steps they can, and
\* every command terminates
PhaseLiveSpec ==
    PhaseSpecInit /\ [][PhaseNext]_vars /\ WF_vars(PhaseBuild) /\ WF_vars(PhaseWorkers)

\* the scheduler lets a goroutine that can take a step take one, and every
\* command terminates
ExecManySpec == ExecManySpecInit /\ [][ExecManyNext]_vars /\ WF_vars(ExecManyNext)

FrontSpecInit == FrontInit /\ GraphInit /\ CacheInit /\ ExecIdle /\ BuildIdle /\ PhaseIdle /\ DocIdle /\ PathIdle /\ ScanIdle /\ WaitIdle

FrontSpec == FrontSpecInit /\ [][FrontNext]_vars

DocSpecInit == DocInit /\ GraphInit /\ CacheInit /\ ExecIdle /\ BuildIdle /\ PhaseIdle /\ FrontIdle /\ PathIdle /\ ScanIdle /\ WaitIdle

DocSpec == DocSpecInit /\ [][DocNext]_vars

GraphQuerySpec == GraphSpecInit /\ [][GraphQueryNext]_vars

CacheCleanSpec == CacheFaultSpecInit /\ [][CacheCleanNext]_vars

PathSpecInit == PathInit /\ GraphInit /\ CacheInit /\ ExecIdle /\ BuildIdle /\ PhaseIdle /\ DocIdle /\ FrontIdle /\ ScanIdle /\ WaitIdle

PathSpec == PathSpecInit /\ [][PathNext]_vars

ScanSpecInit == ScanInit /\ GraphInit /\ CacheInit /\ ExecIdle /\ BuildIdle /\ PhaseIdle /\ DocIdle /\ FrontIdle /\ PathIdle /\ WaitIdle

\* a call of Scan runs on: nothing it does waits for anything
ScanSpec == ScanSpecInit /\ [][ScanNext]_vars /\ WF_vars(ScanNext)

====
